---- MODULE Spec2Model ----
(***************************************************************************)
(* Model of the inspection pipeline of inspect-mcp (src/inspector.ts):     *)
(* one call of inspectElement against a browser tab, as the sequence of    *)
(* protocol requests, waits and local steps the code performs, with every  *)
(* request free to be rejected by the browser.                             *)
(*                                                                         *)
(* Numbers: zoom factors are kept in hundredths (300 is 3.0), lengths in   *)
(* CSS px.  A rejected request has no effect on the page.                  *)
(***************************************************************************)
EXTENDS Integers, Sequences, FiniteSets, TLC

\* ------------------------------------------------------------------ bounds
MaxNodes == 2          \* DOM nodes of the page
MaxScroll == 1         \* scroll positions 0..MaxScroll
MaxElems == 3          \* elements the geometry functions are evaluated on

\* ------------------------------------------------------- program constants
maxAttempts == 3
RetryDelay == 500
CenterSettle == 100
ZoomSettle == 200
HighlightSettle == 200
MIN_ZOOM_FACTOR == 50
MAX_ZOOM_FACTOR == 300
CENTER_THRESHOLD == 30     \* percent of the viewport
ALIGNMENT_TOLERANCE == 1

Nodes == 1..MaxNodes

\* The viewport the browser reports through Page.getLayoutMetrics.
Viewport == [width |-> 50, height |-> 40]

\* Layout of the page's nodes before any scroll or zoom (border boxes).
ElemRect(n) ==
  CASE n % 4 = 1 -> [x |-> 1,  y |-> 1,  width |-> 5,  height |-> 4]
    [] n % 4 = 2 -> [x |-> 0,  y |-> 8,  width |-> 20, height |-> 10]
    [] n % 4 = 3 -> [x |-> 0,  y |-> 0,  width |-> 50, height |-> 36]
    [] OTHER     -> [x |-> 0,  y |-> 4,  width |-> 50, height |-> 32]

\* Inputs of a call.
Limits == {1, 10}
ZoomArgs == {0, 20, 150, 400}     \* zoomFactor values a caller passes, in hundredths
Flags == {"omitted", "true", "false"}

\* The viewport arguments of a call: autoCenter and autoZoom as given (or
\* omitted), and zoomFactor: zoomGiven tells a supplied number from an
\* omitted argument, which reads as undefined and is kept as 0.
ViewportArgs ==
  { [autoCenter |-> "omitted", autoZoom |-> "omitted", zoomGiven |-> FALSE, zoomFactor |-> 0],
    [autoCenter |-> "true",    autoZoom |-> "true",    zoomGiven |-> FALSE, zoomFactor |-> 0],
    [autoCenter |-> "false",   autoZoom |-> "false",   zoomGiven |-> FALSE, zoomFactor |-> 0],
    [autoCenter |-> "false",   autoZoom |-> "omitted", zoomGiven |-> FALSE, zoomFactor |-> 0],
    [autoCenter |-> "omitted", autoZoom |-> "false",   zoomGiven |-> FALSE, zoomFactor |-> 0],
    [autoCenter |-> "true",    autoZoom |-> "false",   zoomGiven |-> TRUE,  zoomFactor |-> 400],
    [autoCenter |-> "false",   autoZoom |-> "true",    zoomGiven |-> TRUE,  zoomFactor |-> 20],
    [autoCenter |-> "omitted", autoZoom |-> "omitted", zoomGiven |-> TRUE,  zoomFactor |-> 150],
    [autoCenter |-> "omitted", autoZoom |-> "true",    zoomGiven |-> TRUE,  zoomFactor |-> 0],
    [autoCenter |-> "false",   autoZoom |-> "false",   zoomGiven |-> TRUE,  zoomFactor |-> 0] }
Edits == {"none", "color", "display:none"}   \* css_edits: absent, harmless, hiding

Domains == <<"DOM.enable", "CSS.enable", "Page.enable", "Overlay.enable">>

Errors == {"TargetNotFound", "ProtocolError", "DocumentUnavailable",
           "InvalidSelector", "ElementNotFound", "ElementNotVisible",
           "CaptureFailed"}
Results == {"Single", "Multi"}

VARIABLES
  pc,                 \* position in inspectElement / inspectSingleElement / inspectMultipleElements
  args,               \* the arguments read at entry, and what the selector matches
  params,             \* autoCenter, autoZoom, zoomFactor as passed to the single/multi path
  start,              \* page scale and scroll when the call started
  scale, scroll,      \* page scale factor (hundredths) and scroll position
  marker,             \* node -> "none" | "id" | "temp": its data-inspect-id attribute
  style,              \* node -> "orig" | "color" | "display:none": its inline style
  attempts,           \* failed DOM.getDocument attempts
  marked,             \* nodes reported by the marking script
  nodeIds,            \* node handles acquired
  idx,                \* loop index
  uniqueId,           \* single path: "none" | "id" | "temp"
  appliedZoomFactor,
  centered,           \* a centering scroll was issued
  boxModels,          \* per inspected element: "none" | "initial" | "updated"
  mainOutcome,        \* how the main steps ended: "none", a result or an error
  pending,            \* the completion carried through the finally blocks
  outcome,            \* what the caller receives
  closed,             \* number of cdp.close() calls
  trace,              \* requests, waits and local steps so far
  calc                \* inputs and results of the geometry functions evaluated on their own

pageVars == <<scale, scroll, marker, style>>
callVars == <<attempts, marked, nodeIds, idx, uniqueId, appliedZoomFactor,
              centered, boxModels>>
endVars  == <<mainOutcome, pending, outcome, closed>>
vars == <<pc, args, params, start, scale, scroll, marker, style, attempts, marked,
          nodeIds, idx, uniqueId, appliedZoomFactor, centered, boxModels,
          mainOutcome, pending, outcome, closed, trace, calc>>

\* ------------------------------------------------------------------ events
\* A request with its numeric parameter (0 when it has none) and its reply.
Req(m, n, r) == [k |-> "send",  m |-> m, n |-> n, r |-> r]
Wait(n)      == [k |-> "wait",  m |-> "", n |-> n, r |-> ""]
Local(m)     == [k |-> "local", m |-> m, n |-> 0, r |-> ""]
CloseEv      == [k |-> "close", m |-> "", n |-> 0, r |-> ""]
\* calculateElementRelationships(nodeData): n counts the boxes of nodeData
\* that the second pass measured
RelationshipsOver(b) ==
  [k |-> "local", m |-> "relationships",
   n |-> Cardinality({i \in 1..Len(b) : b[i] = "updated"}), r |-> ""]
R(ok) == IF ok THEN "ok" ELSE "rejected"

Log(e) == trace' = Append(trace, e)
Log2(e, f) == trace' = Append(Append(trace, e), f)

\* ------------------------------------------------------------ control flow
\* A throw inside a try body: the completion becomes the error and control
\* moves to the finally block that guards the throwing statement.
Throw(err, finallyPc) ==
  /\ pending' = err
  /\ mainOutcome' = IF mainOutcome = "none" THEN err ELSE mainOutcome
  /\ pc' = finallyPc

\* catch (cleanupError) { console.warn(...) }: the completion is kept.
PropagateCleanupError(completion) == "CleanupError"
SwallowCleanupError(completion) == completion

Min(a, b) == IF a < b THEN a ELSE b
Max(a, b) == IF a > b THEN a ELSE b

\* Nodes in document order.
RECURSIVE SetToSeq(_)
SetToSeq(S) ==
  IF S = {} THEN <<>>
  ELSE LET n == CHOOSE x \in S : \A y \in S : x <= y
       IN <<n>> \o SetToSeq(S \ {n})

Take(s, n) == SubSeq(s, 1, Min(n, Len(s)))

\* The first revision of inspectElement takes css_selector and url only.
LegacyArgs(valid, matching) ==
  [legacy |-> TRUE, selectorValid |-> valid, matching |-> matching,
   limit |-> 1, edits |-> "none"]

\* params before the single or multi path is entered.
NoParams == [autoCenter |-> FALSE, autoZoom |-> FALSE, zoomFactor |-> 0,
             given |-> [autoCenter |-> "unread", autoZoom |-> "unread",
                        zoomGiven |-> FALSE, zoomFactor |-> 0]]

\* args.autoCenter !== false, args.autoZoom !== false
EnabledOnlyIfTrue(flag) == flag = "true"
EnabledUnlessFalse(flag) == flag # "false"

\* The finally block guarding the head of inspectElement, and the step after
\* the document was retrieved, in either revision.
HeadOutsideTry == "done"
HeadFinally == IF args.legacy THEN "o_close" ELSE "o_cleanup"
AfterDocument == IF args.legacy THEN "l_query" ELSE "mark"

\* calc while a call is modelled: no function is evaluated on its own.
NoCalc == [op |-> "none"]

\* ------------------------------------------------------------------- Init
\* The state when inspectElement is entered.
CallInit ==
  /\ pc = "connect"
  /\ args \in [legacy : BOOLEAN,
               selectorValid : BOOLEAN,
               matching : SUBSET Nodes,
               limit : Limits,
               edits : Edits]
  /\ (args.selectorValid \/ args.matching = {})   \* a rejected selector matches nothing
  /\ (args.legacy => args = LegacyArgs(args.selectorValid, args.matching))
  /\ params = NoParams
  /\ scale = 100
  /\ scroll = 0
  /\ start = [scale |-> scale, scroll |-> scroll]
  /\ marker = [n \in Nodes |-> "none"]
  /\ style = [n \in Nodes |-> "orig"]
  /\ attempts = 0
  /\ marked = <<>>
  /\ nodeIds = <<>>
  /\ idx = 0
  /\ uniqueId = "none"
  /\ appliedZoomFactor = 100
  /\ centered = FALSE
  /\ boxModels = <<>>
  /\ mainOutcome = "none"
  /\ pending = "none"
  /\ outcome = "none"
  /\ closed = 0
  /\ trace = <<>>
  /\ calc = NoCalc

\* ---------------------------------------------------- inspectElement: head
\* ensureChromeWithCDP + connectToTarget + new CDPClient, outside the try.
Connect ==
  /\ pc = "connect"
  /\ \E ok \in BOOLEAN :
       IF ok
       THEN /\ pc' = "enable"
            /\ idx' = 1
            /\ Log(Local("connect"))
            /\ UNCHANGED <<mainOutcome, pending, outcome>>
       ELSE /\ pc' = "done"
            /\ mainOutcome' = "TargetNotFound"
            /\ pending' = "TargetNotFound"
            /\ outcome' = "TargetNotFound"
            /\ UNCHANGED <<idx, trace>>
  /\ UNCHANGED <<calc, args, params, start, pageVars, attempts, marked, nodeIds, uniqueId,
                 appliedZoomFactor, centered, boxModels, closed>>

\* await cdp.send('DOM.enable') ... await cdp.send('Overlay.enable')
EnableDomain ==
  /\ pc = "enable"
  /\ \E ok \in BOOLEAN :
       /\ Log(Req(Domains[idx], 0, R(ok)))
       /\ IF ok
          THEN /\ IF idx < Len(Domains)
                  THEN pc' = "enable" /\ idx' = idx + 1
                  ELSE pc' = "getDocument" /\ idx' = 0
               /\ UNCHANGED <<mainOutcome, pending>>
          ELSE /\ Throw("ProtocolError", HeadFinally)
               /\ UNCHANGED idx
  /\ UNCHANGED <<calc, args, params, start, pageVars, attempts, marked, nodeIds, uniqueId,
                 appliedZoomFactor, centered, boxModels, outcome, closed>>

\* if (attempts >= maxAttempts) throw ...
RetriesNeverExhausted(n) == n > maxAttempts
RetriesExhausted(n) == n >= maxAttempts

\* One iteration of the retry loop: DOM.getDocument, the validity test, and
\* the catch block up to (not including) the backoff wait.
GetDocument ==
  /\ pc = "getDocument"
  /\ attempts < maxAttempts
  /\ \E reply \in {"root", "empty", "rejected"} :
       /\ Log(Req("DOM.getDocument", 0, IF reply = "root" THEN "root" ELSE "failed"))
       /\ IF reply = "root"
          THEN /\ pc' = AfterDocument
               /\ UNCHANGED <<attempts, mainOutcome, pending>>
          ELSE /\ attempts' = attempts + 1
               /\ IF RetriesExhausted(attempts + 1)
                  THEN Throw("DocumentUnavailable", HeadFinally)
                  ELSE pc' = "retryWait" /\ UNCHANGED <<mainOutcome, pending>>
  /\ UNCHANGED <<calc, args, params, start, pageVars, marked, nodeIds, idx, uniqueId,
                 appliedZoomFactor, centered, boxModels, outcome, closed>>

\* await new Promise(resolve => setTimeout(resolve, 500 * attempts))
RetryWait ==
  /\ pc = "retryWait"
  /\ Log(Wait(RetryDelay * attempts))
  /\ pc' = "getDocument"
  /\ UNCHANGED <<calc, args, params, start, pageVars, callVars, endVars>>

\* What BrowserScripts.markElementsWithIds does in the page: the first
\* `limit` elements matching the selector, in document order, are tagged.
MarkedBy(a) == Take(SetToSeq(a.matching), a.limit)

\* The reply of the marking script: the call is rejected, the script raised
\* (the browser does not accept the selector), it reports no match, or it
\* lists the elements it tagged.
MarkReply(ok, a) ==
  IF ~ok THEN "rejected"
  ELSE IF ~a.selectorValid THEN "exception"
  ELSE IF a.matching = {} THEN "error"
  ELSE "list"

\* if (evalResult.exceptionDetails) throw Invalid CSS selector;
\* if (result.error) throw Element not found
SelectorErrorConflated(reply) == "ElementNotFound"
SelectorError(reply) ==
  IF reply = "exception" THEN "InvalidSelector" ELSE "ElementNotFound"

\* Runtime.evaluate(markElementsWithIds(css_selector, limit)) and the two
\* tests of its reply.
MarkElements ==
  /\ pc = "mark"
  /\ \E ok \in BOOLEAN :
       LET reply == MarkReply(ok, args) IN
       /\ Log(Req("Runtime.evaluate:markElementsWithIds", 0, reply))
       /\ CASE reply = "rejected" ->
                 /\ Throw("ProtocolError", "o_cleanup")
                 /\ UNCHANGED <<marker, marked, idx>>
            [] reply \in {"exception", "error"} ->
                 /\ Throw(SelectorError(reply), "o_cleanup")
                 /\ UNCHANGED <<marker, marked, idx>>
            [] reply = "list" ->
                 /\ marked' = MarkedBy(args)
                 /\ marker' = [n \in Nodes |->
                                IF \E i \in 1..Len(MarkedBy(args)) : MarkedBy(args)[i] = n
                                THEN "id" ELSE marker[n]]
                 /\ idx' = 1
                 /\ pc' = "query"
                 /\ UNCHANGED <<mainOutcome, pending>>
  /\ UNCHANGED <<calc, args, params, start, scale, scroll, style, attempts, nodeIds,
                 uniqueId, appliedZoomFactor, centered, boxModels, outcome, closed>>

\* for (const elementInfo of result): DOM.querySelector by marker attribute.
QuerySelector ==
  /\ pc = "query"
  /\ idx <= Len(marked)
  /\ \E reply \in {"node", "none", "rejected"} :
       /\ Log(Req("DOM.querySelector", 0, reply))
       /\ IF reply = "rejected"
          THEN /\ Throw("ProtocolError", "o_cleanup")
               /\ UNCHANGED <<nodeIds, idx>>
          ELSE /\ nodeIds' = IF reply = "node" THEN Append(nodeIds, marked[idx]) ELSE nodeIds
               /\ idx' = idx + 1
               /\ pc' = "query"
               /\ UNCHANGED <<mainOutcome, pending>>
  /\ UNCHANGED <<calc, args, params, start, pageVars, attempts, marked, uniqueId,
                 appliedZoomFactor, centered, boxModels, outcome, closed>>

\* if (nodeIds.length === 0) throw ...; if (nodeIds.length === 1) ... else ...
Dispatch ==
  /\ pc = "query"
  /\ idx > Len(marked)
  /\ IF Len(nodeIds) = 0
     THEN /\ Throw("ElementNotFound", "o_cleanup")
          /\ UNCHANGED params
     ELSE /\ pc' = IF Len(nodeIds) = 1 THEN "s_edit" ELSE "m_viewport"
          /\ \E v \in ViewportArgs :
               \* args.autoCenter !== false, args.autoZoom !== false, args.zoomFactor
               params' = [autoCenter |-> EnabledUnlessFalse(v.autoCenter),
                          autoZoom |-> EnabledUnlessFalse(v.autoZoom),
                          zoomFactor |-> v.zoomFactor,
                          given |-> v]
          /\ UNCHANGED <<mainOutcome, pending>>
  /\ idx' = 1
  /\ UNCHANGED <<calc, args, start, pageVars, attempts, marked, nodeIds, uniqueId,
                 appliedZoomFactor, centered, boxModels, outcome, closed, trace>>

\* ---------------------------------------------------- viewport controller
\* round(100 * sqrt(p / q)) for p, q > 0, within the zoom range.
RoundSqrt100(p, q) ==
  CHOOSE z \in MIN_ZOOM_FACTOR..MAX_ZOOM_FACTOR :
    /\ (2 * z - 1) * (2 * z - 1) * q <= 40000 * p
    /\ 40000 * p < (2 * z + 1) * (2 * z + 1) * q

\* The zoom-in band closed at coverage 0.1.
calculateOptimalZoomInclusive(pos, viewport) ==
  LET elementArea == pos.width * pos.height
      viewportArea == viewport.width * viewport.height
  IN IF 10 * elementArea <= viewportArea
     THEN IF 4 * viewportArea >= 90 * elementArea           \* sqrt(0.4 / coverage) >= 3
          THEN MAX_ZOOM_FACTOR
          ELSE RoundSqrt100(4 * viewportArea, 10 * elementArea)
     ELSE IF 10 * elementArea > 8 * viewportArea            \* coverage > 0.8
     THEN IF 24 * viewportArea <= 10 * elementArea          \* sqrt(0.6 / coverage) <= 0.5
          THEN MIN_ZOOM_FACTOR
          ELSE RoundSqrt100(6 * viewportArea, 10 * elementArea)
     ELSE 100

\* calculateOptimalZoom, on elementPosition's width and height.
calculateOptimalZoom(pos, viewport) ==
  LET elementArea == pos.width * pos.height
      viewportArea == viewport.width * viewport.height
  IN IF 10 * elementArea < viewportArea                     \* coverage < 0.1
     THEN IF 4 * viewportArea >= 90 * elementArea           \* sqrt(0.4 / coverage) >= 3
          THEN MAX_ZOOM_FACTOR
          ELSE RoundSqrt100(4 * viewportArea, 10 * elementArea)
     ELSE IF 10 * elementArea > 8 * viewportArea            \* coverage > 0.8
     THEN IF 24 * viewportArea <= 10 * elementArea          \* sqrt(0.6 / coverage) <= 0.5
          THEN MIN_ZOOM_FACTOR
          ELSE RoundSqrt100(6 * viewportArea, 10 * elementArea)
     ELSE 100

\* Bounding box of a sequence of element positions.
GroupBox(positions) ==
  LET I == 1..Len(positions)
      P(i) == positions[i]
      minX == CHOOSE v \in {P(i).x : i \in I} : \A i \in I : v <= P(i).x
      minY == CHOOSE v \in {P(i).y : i \in I} : \A i \in I : v <= P(i).y
      maxX == CHOOSE v \in {P(i).x + P(i).width : i \in I} :
                \A i \in I : v >= P(i).x + P(i).width
      maxY == CHOOSE v \in {P(i).y + P(i).height : i \in I} :
                \A i \in I : v >= P(i).y + P(i).height
  IN [x |-> minX, y |-> minY, width |-> maxX - minX, height |-> maxY - minY]

\* calculateMultiElementZoom, on the group's bounding box.
calculateMultiElementZoom(positions, viewport) ==
  LET box == GroupBox(positions)
      groupArea == box.width * box.height
      viewportArea == viewport.width * viewport.height
  IN IF 10 * groupArea < 2 * viewportArea                   \* coverage < 0.2
     THEN IF 6 * viewportArea >= 90 * groupArea             \* sqrt(0.6 / coverage) >= 3
          THEN MAX_ZOOM_FACTOR
          ELSE RoundSqrt100(6 * viewportArea, 10 * groupArea)
     ELSE IF 10 * groupArea > 9 * viewportArea              \* coverage > 0.9
     THEN IF 28 * viewportArea <= 10 * groupArea            \* sqrt(0.7 / coverage) <= 0.5
          THEN MIN_ZOOM_FACTOR
          ELSE RoundSqrt100(7 * viewportArea, 10 * groupArea)
     ELSE 100

Abs(a) == IF a < 0 THEN -a ELSE a

\* The thresholds counted as off-center.
shouldCenterElementInclusive(pos, viewport) ==
  \/ 100 * Abs(2 * pos.x + pos.width - viewport.width)
       >= 2 * CENTER_THRESHOLD * viewport.width
  \/ 100 * Abs(2 * pos.y + pos.height - viewport.height)
       >= 2 * CENTER_THRESHOLD * viewport.height

\* shouldCenterElement, with every length doubled to stay in the integers.
shouldCenterElement(pos, viewport) ==
  \/ 100 * Abs(2 * pos.x + pos.width - viewport.width)
       > 2 * CENTER_THRESHOLD * viewport.width
  \/ 100 * Abs(2 * pos.y + pos.height - viewport.height)
       > 2 * CENTER_THRESHOLD * viewport.height

\* Math.min(MAX_ZOOM_FACTOR, Math.max(MIN_ZOOM_FACTOR, zoomFactor))
ClampZoomNoFloor(z) == Min(MAX_ZOOM_FACTOR, z)
ClampZoom(z) == Min(MAX_ZOOM_FACTOR, Max(MIN_ZOOM_FACTOR, z))

\* if (autoZoom || zoomFactor) { ... }: the factor the call applies.
SingleZoom(a, pos) ==
  IF a.autoZoom \/ a.zoomFactor # 0
  THEN IF a.zoomFactor # 0 THEN ClampZoom(a.zoomFactor)
       ELSE calculateOptimalZoom(pos, Viewport)
  ELSE 100

MultiZoom(a, positions) ==
  IF a.autoZoom \/ a.zoomFactor # 0
  THEN IF a.zoomFactor # 0 THEN ClampZoom(a.zoomFactor)
       ELSE calculateMultiElementZoom(positions, Viewport)
  ELSE 100

\* if (appliedZoomFactor !== 1) in the finally blocks
ResetOnlyZoomIn(z) == z > 100
NeedsReset(z) == z # 100

\* if (!initialMetrics) / if (!boxModelResult.model)
MeasurementNeverMissing(m) == FALSE
MeasurementMissing(m) == m = "null"

\* A request with no reply content the code looks at.
PlainSend(here, m, next, finallyPc) ==
  /\ pc = here
  /\ \E ok \in BOOLEAN :
       /\ Log(Req(m, 0, R(ok)))
       /\ IF ok THEN pc' = next /\ UNCHANGED <<mainOutcome, pending>>
          ELSE Throw("ProtocolError", finallyPc)
  /\ UNCHANGED <<calc, args, params, start, pageVars, callVars, outcome, closed>>

\* The replies a measurement of node n can get: a hidden element has no layout.
MeasureReplies(n) ==
  IF style[n] = "display:none" THEN {"rejected", "exception", "null"}
  ELSE {"rejected", "exception", "null", "metrics"}

\* getElementMetrics: exceptionDetails is logged and mapped to null.
getElementMetrics(reply) == IF reply = "exception" THEN "null" ELSE reply

\* The element findOrCreateUniqueId(selector) addresses: the first match.
FirstMatch(a) == CHOOSE n \in a.matching : \A m \in a.matching : n <= m

\* ------------------------------------------------- inspectSingleElement
\* if (css_edits && Object.keys(css_edits).length > 0) setInlineStyles(...)
S_ApplyEdits ==
  /\ pc = "s_edit"
  /\ IF args.edits # "none"
     THEN /\ \E ok \in BOOLEAN :
               /\ Log(Req("DOM.setInlineStyles", 0, R(ok)))
               /\ IF ok
                  THEN /\ style' = [style EXCEPT ![nodeIds[1]] = args.edits]
                       /\ pc' = "s_uid"
                       /\ UNCHANGED <<mainOutcome, pending>>
                  ELSE /\ Throw("ProtocolError", "o_cleanup")
                       /\ UNCHANGED style
     ELSE /\ pc' = "s_uid"
          /\ UNCHANGED <<style, mainOutcome, pending, trace>>
  /\ UNCHANGED <<calc, args, params, start, scale, scroll, marker, callVars, outcome, closed>>

\* Runtime.evaluate(findOrCreateUniqueId(selector)): the element's marker, a
\* fresh _inspect_temp_ marker when the page has dropped it, or no element.
S_FindOrCreateUniqueId ==
  /\ pc = "s_uid"
  /\ \E reply \in {"rejected", "null", "id", "temp"} :
       /\ Log(Req("Runtime.evaluate:findOrCreateUniqueId", 0, reply))
       /\ CASE reply = "rejected" ->
                 /\ Throw("ProtocolError", "o_cleanup")
                 /\ UNCHANGED <<marker, uniqueId>>
            [] reply = "null" ->
                 /\ Throw("ElementNotVisible", "o_cleanup")
                 /\ UNCHANGED <<marker, uniqueId>>
            [] reply = "id" ->
                 /\ marker[FirstMatch(args)] = "id"
                 /\ uniqueId' = "id"
                 /\ pc' = "s_metrics0"
                 /\ UNCHANGED <<marker, mainOutcome, pending>>
            [] reply = "temp" ->
                 /\ marker' = [marker EXCEPT ![FirstMatch(args)] = "temp"]
                 /\ uniqueId' = "temp"
                 /\ pc' = "s_metrics0"
                 /\ UNCHANGED <<mainOutcome, pending>>
  /\ UNCHANGED <<calc, args, params, start, scale, scroll, style, attempts, marked, nodeIds,
                 idx, appliedZoomFactor, centered, boxModels, outcome, closed>>

\* initialMetrics = getElementMetrics(...); if (!initialMetrics) throw ...
S_MeasureInitial ==
  /\ pc = "s_metrics0"
  /\ \E reply \in MeasureReplies(FirstMatch(args)) :
       /\ Log(Req("Runtime.evaluate:getElementMetrics", 0, getElementMetrics(reply)))
       /\ IF reply = "rejected"
          THEN Throw("ProtocolError", "o_cleanup") /\ UNCHANGED boxModels
          ELSE IF MeasurementMissing(getElementMetrics(reply))
          THEN Throw("ElementNotVisible", "o_cleanup") /\ UNCHANGED boxModels
          ELSE /\ boxModels' = <<"initial">>
               /\ pc' = "s_viewport"
               /\ UNCHANGED <<mainOutcome, pending>>
  /\ UNCHANGED <<calc, args, params, start, pageVars, attempts, marked, nodeIds, idx,
                 uniqueId, appliedZoomFactor, centered, outcome, closed>>

\* getViewportInfo(cdp), the last statement before the try block
S_GetViewportInfo ==
  /\ pc = "s_viewport"
  /\ PlainSend("s_viewport", "Page.getLayoutMetrics", "s_center", "o_cleanup")

\* The position the single path centers and zooms on.
elementPosition(a) == ElemRect(FirstMatch(a))

\* The centering request without its settle wait.
S_CenterNoSettle ==
  /\ pc = "s_center"
  /\ IF params.autoCenter /\ uniqueId # "none"
          /\ shouldCenterElement(elementPosition(args), Viewport)
     THEN /\ \E ok \in BOOLEAN :
               /\ Log(Req("Runtime.evaluate:centerElement", 0, R(ok)))
               /\ IF ok
                  THEN /\ \E pos \in 0..MaxScroll : scroll' = pos
                       /\ pc' = "s_zoom"
                       /\ UNCHANGED <<mainOutcome, pending>>
                  ELSE /\ Throw("ProtocolError", "s_reset")
                       /\ UNCHANGED scroll
          /\ centered' = TRUE
     ELSE /\ pc' = "s_zoom"
          /\ UNCHANGED <<scroll, centered, mainOutcome, pending, trace>>
  /\ UNCHANGED <<calc, args, params, start, scale, marker, style, attempts, marked, nodeIds,
                 idx, uniqueId, appliedZoomFactor, boxModels, outcome, closed>>

\* if (autoCenter && uniqueId && shouldCenterElement(...)) centerElement(...)
S_Center ==
  /\ pc = "s_center"
  /\ IF params.autoCenter /\ uniqueId # "none"
          /\ shouldCenterElement(elementPosition(args), Viewport)
     THEN /\ \E ok \in BOOLEAN :
               /\ Log(Req("Runtime.evaluate:centerElement", 0, R(ok)))
               /\ IF ok
                  THEN /\ \E pos \in 0..MaxScroll : scroll' = pos
                       /\ pc' = "s_centerWait"
                       /\ UNCHANGED <<mainOutcome, pending>>
                  ELSE /\ Throw("ProtocolError", "s_reset")
                       /\ UNCHANGED scroll
          /\ centered' = TRUE
     ELSE /\ pc' = "s_zoom"
          /\ UNCHANGED <<scroll, centered, mainOutcome, pending, trace>>
  /\ UNCHANGED <<calc, args, params, start, scale, marker, style, attempts, marked, nodeIds,
                 idx, uniqueId, appliedZoomFactor, boxModels, outcome, closed>>

\* await new Promise(resolve => setTimeout(resolve, 100))
S_CenterSettle ==
  /\ pc = "s_centerWait"
  /\ Log(Wait(CenterSettle))
  /\ pc' = "s_zoom"
  /\ UNCHANGED <<calc, args, params, start, pageVars, callVars, endVars>>

\* The zoom block: appliedZoomFactor is assigned, then sent when it is not 1.
S_Zoom ==
  /\ pc = "s_zoom"
  /\ LET z == SingleZoom(params, elementPosition(args)) IN
       /\ appliedZoomFactor' = z
       /\ IF z # 100
          THEN /\ \E ok \in BOOLEAN :
                    /\ Log2(Local("computeZoom"), Req("Emulation.setPageScaleFactor", z, R(ok)))
                    /\ IF ok
                       THEN /\ scale' = z
                            /\ pc' = "s_zoomWait"
                            /\ UNCHANGED <<mainOutcome, pending>>
                       ELSE /\ Throw("ProtocolError", "s_reset")
                            /\ UNCHANGED scale
          ELSE /\ Log(Local("computeZoom"))
               /\ pc' = "s_metrics1"
               /\ UNCHANGED <<scale, mainOutcome, pending>>
  /\ UNCHANGED <<calc, args, params, start, scroll, marker, style, attempts, marked, nodeIds,
                 idx, uniqueId, centered, boxModels, outcome, closed>>

\* await new Promise(resolve => setTimeout(resolve, 200))
S_ZoomSettle ==
  /\ pc = "s_zoomWait"
  /\ Log(Wait(ZoomSettle))
  /\ pc' = "s_metrics1"
  /\ UNCHANGED <<calc, args, params, start, pageVars, callVars, endVars>>

\* updatedMetrics ? convertElementMetricsToBoxModel(updatedMetrics) : initialBoxModel
S_MeasureFinal ==
  /\ pc = "s_metrics1"
  /\ \E reply \in MeasureReplies(FirstMatch(args)) :
       /\ Log(Req("Runtime.evaluate:getElementMetrics", 0, getElementMetrics(reply)))
       /\ IF reply = "rejected"
          THEN Throw("ProtocolError", "s_reset") /\ UNCHANGED boxModels
          ELSE /\ boxModels' = IF getElementMetrics(reply) = "null"
                               THEN boxModels ELSE <<"updated">>
               /\ pc' = "s_computed"
               /\ UNCHANGED <<mainOutcome, pending>>
  /\ UNCHANGED <<calc, args, params, start, pageVars, attempts, marked, nodeIds, idx,
                 uniqueId, appliedZoomFactor, centered, outcome, closed>>

\* The cascade read placed where the computed-style read belongs.
S_CascadeFirst ==
  /\ pc = "s_computed"
  /\ PlainSend("s_computed", "CSS.getMatchedStylesForNode", "s_matched", "s_reset")

S_ComputedStyle ==
  /\ pc = "s_computed"
  /\ PlainSend("s_computed", "CSS.getComputedStyleForNode", "s_matched", "s_reset")

S_MatchedStyles ==
  /\ pc = "s_matched"
  /\ PlainSend("s_matched", "CSS.getMatchedStylesForNode", "s_highlight", "s_reset")

\* highlightElements(cdp, [nodeId]): clears any overlay
S_Highlight ==
  /\ pc = "s_highlight"
  /\ PlainSend("s_highlight", "Overlay.hideHighlight", "s_capture", "s_reset")

\* Page.captureScreenshot; if (!screenshotResult.data) throw ...
S_Capture ==
  /\ pc = "s_capture"
  /\ \E reply \in {"rejected", "nodata", "data"} :
       /\ Log(Req("Page.captureScreenshot", 0, reply))
       /\ CASE reply = "rejected" -> Throw("ProtocolError", "s_reset")
            [] reply = "nodata" -> Throw("CaptureFailed", "s_reset")
            [] reply = "data" -> pc' = "s_annotate" /\ UNCHANGED <<mainOutcome, pending>>
  /\ UNCHANGED <<calc, args, params, start, pageVars, callVars, outcome, closed>>

\* A failed annotation rethrown to the caller.
S_AnnotateThrows ==
  /\ pc = "s_annotate"
  /\ \E ok \in BOOLEAN :
       /\ Log(Local(IF ok THEN "annotate" ELSE "annotateFailed"))
       /\ IF ok THEN pc' = "s_hide" /\ UNCHANGED <<mainOutcome, pending>>
          ELSE Throw("CaptureFailed", "s_reset")
  /\ UNCHANGED <<calc, args, params, start, pageVars, callVars, outcome, closed>>

\* drawHighlightOnScreenshot: its own try/catch returns the original buffer.
S_Annotate ==
  /\ pc = "s_annotate"
  /\ \E ok \in BOOLEAN :
       Log(Local(IF ok THEN "annotate" ELSE "annotateFailed"))
  /\ pc' = "s_hide"
  /\ UNCHANGED <<calc, args, params, start, pageVars, callVars, endVars>>

S_HideHighlight ==
  /\ pc = "s_hide"
  /\ PlainSend("s_hide", "Overlay.hideHighlight", "s_return", "s_reset")

\* return { screenshot, ..., stats }
S_Return ==
  /\ pc = "s_return"
  /\ Log(Local("assemble"))
  /\ pending' = "Single"
  /\ mainOutcome' = "Single"
  /\ pc' = "s_reset"
  /\ UNCHANGED <<calc, args, params, start, pageVars, callVars, outcome, closed>>

\* finally { try { if (appliedZoomFactor !== 1) resetViewportScale(cdp) ...
S_ResetViewportScale ==
  /\ pc = "s_reset"
  /\ IF NeedsReset(appliedZoomFactor)
     THEN /\ \E ok \in BOOLEAN :
               /\ Log(Req("Emulation.setPageScaleFactor", 100, R(ok)))
               /\ IF ok
                  THEN scale' = 100 /\ pc' = "s_cleanTemp" /\ UNCHANGED pending
                  ELSE /\ pending' = SwallowCleanupError(pending)
                       /\ pc' = "o_cleanup"
                       /\ UNCHANGED scale
     ELSE /\ pc' = "s_cleanTemp"
          /\ UNCHANGED <<scale, pending, trace>>
  /\ UNCHANGED <<calc, args, params, start, scroll, marker, style, callVars, mainOutcome,
                 outcome, closed>>

\* ... if (uniqueId.startsWith('_inspect_temp_')) cleanupTempId(uniqueId) } catch {} }
S_CleanupTempId ==
  /\ pc = "s_cleanTemp"
  /\ IF uniqueId = "temp"
     THEN /\ \E ok \in BOOLEAN :
               /\ Log(Req("Runtime.evaluate:cleanupTempId", 0, R(ok)))
               /\ IF ok
                  THEN /\ marker' = [marker EXCEPT ![FirstMatch(args)] = "none"]
                       /\ UNCHANGED pending
                  ELSE /\ pending' = SwallowCleanupError(pending)
                       /\ UNCHANGED marker
     ELSE UNCHANGED <<marker, pending, trace>>
  /\ pc' = "o_cleanup"
  /\ UNCHANGED <<calc, args, params, start, scale, scroll, style, callVars, mainOutcome,
                 outcome, closed>>

\* ------------------------------------------------ inspectMultipleElements
\* getViewportInfo(cdp), before the try block
M_GetViewportInfo ==
  /\ pc = "m_viewport"
  /\ PlainSend("m_viewport", "Page.getLayoutMetrics", "m_edit", "o_cleanup")

\* First pass, element idx: the css_edits
M_ApplyEdits ==
  /\ pc = "m_edit"
  /\ IF args.edits # "none"
     THEN /\ \E ok \in BOOLEAN :
               /\ Log(Req("DOM.setInlineStyles", 0, R(ok)))
               /\ IF ok
                  THEN /\ style' = [style EXCEPT ![nodeIds[idx]] = args.edits]
                       /\ pc' = "m_box0"
                       /\ UNCHANGED <<mainOutcome, pending>>
                  ELSE /\ Throw("ProtocolError", "m_reset")
                       /\ UNCHANGED style
     ELSE /\ pc' = "m_box0"
          /\ UNCHANGED <<style, mainOutcome, pending, trace>>
  /\ UNCHANGED <<calc, args, params, start, scale, scroll, marker, callVars, outcome, closed>>

\* The replies DOM.getBoxModel can get for node n.
BoxModelReplies(n) ==
  IF style[n] = "display:none" THEN {"rejected", "null"}
  ELSE {"rejected", "null", "model"}

\* The centering and zoom decisions taken after each first-pass measurement.
M_MeasureThenAdjust ==
  /\ pc = "m_box0"
  /\ \E reply \in BoxModelReplies(nodeIds[idx]) :
       /\ Log(Req("DOM.getBoxModel", 0, reply))
       /\ CASE reply = "rejected" ->
                 Throw("ProtocolError", "m_reset") /\ UNCHANGED <<boxModels, idx>>
            [] reply # "rejected" /\ MeasurementMissing(reply) ->
                 Throw("ElementNotVisible", "m_reset") /\ UNCHANGED <<boxModels, idx>>
            [] OTHER ->
                 /\ boxModels' = Append(boxModels, "initial")
                 /\ idx' = idx /\ pc' = "m_uids"
                 /\ UNCHANGED <<mainOutcome, pending>>
  /\ UNCHANGED <<calc, args, params, start, pageVars, attempts, marked, nodeIds, uniqueId,
                 appliedZoomFactor, centered, outcome, closed>>

\* First pass, element idx: DOM.getBoxModel; if (!boxModelResult.model) throw ...
M_MeasureInitial ==
  /\ pc = "m_box0"
  /\ \E reply \in BoxModelReplies(nodeIds[idx]) :
       /\ Log(Req("DOM.getBoxModel", 0, reply))
       /\ CASE reply = "rejected" ->
                 Throw("ProtocolError", "m_reset") /\ UNCHANGED <<boxModels, idx>>
            [] reply # "rejected" /\ MeasurementMissing(reply) ->
                 Throw("ElementNotVisible", "m_reset") /\ UNCHANGED <<boxModels, idx>>
            [] OTHER ->
                 /\ boxModels' = Append(boxModels, "initial")
                 /\ IF idx < Len(nodeIds)
                    THEN idx' = idx + 1 /\ pc' = "m_edit"
                    ELSE idx' = 1 /\ pc' = "m_uids"
                 /\ UNCHANGED <<mainOutcome, pending>>
  /\ UNCHANGED <<calc, args, params, start, pageVars, attempts, marked, nodeIds, uniqueId,
                 appliedZoomFactor, centered, outcome, closed>>

\* The inline script of lines 795-810: every element matching the selector
\* that has no data-inspect-id gets an _inspect_temp_ one.
UniqueIdsEffect(mk, a) ==
  [n \in Nodes |-> IF n \in a.matching /\ mk[n] = "none" THEN "temp" ELSE mk[n]]

M_UniqueIds ==
  /\ pc = "m_uids"
  /\ \E reply \in {"rejected", "undefined", "ids"} :
       /\ Log(Req("Runtime.evaluate:uniqueIds", 0, reply))
       /\ CASE reply = "rejected" ->
                 Throw("ProtocolError", "m_reset") /\ UNCHANGED <<marker, uniqueId>>
            [] reply = "undefined" ->
                 /\ pc' = "m_center"
                 /\ UNCHANGED <<marker, uniqueId, mainOutcome, pending>>
            [] reply = "ids" ->
                 /\ marker' = UniqueIdsEffect(marker, args)
                 /\ uniqueId' = "ids"
                 /\ pc' = "m_center"
                 /\ UNCHANGED <<mainOutcome, pending>>
  /\ UNCHANGED <<calc, args, params, start, scale, scroll, style, attempts, marked, nodeIds,
                 idx, appliedZoomFactor, centered, boxModels, outcome, closed>>

\* if (autoCenter && uniqueIds && uniqueIds.length > 0) centerMultipleElements(...)
M_Center ==
  /\ pc = "m_center"
  /\ IF params.autoCenter /\ uniqueId = "ids"
     THEN /\ \E ok \in BOOLEAN :
               /\ Log(Req("Runtime.evaluate:centerMultipleElements", 0, R(ok)))
               /\ IF ok
                  THEN /\ \E pos \in 0..MaxScroll : scroll' = pos
                       /\ pc' = "m_centerWait"
                       /\ UNCHANGED <<mainOutcome, pending>>
                  ELSE /\ Throw("ProtocolError", "m_reset")
                       /\ UNCHANGED scroll
          /\ centered' = TRUE
     ELSE /\ pc' = "m_zoom"
          /\ UNCHANGED <<scroll, centered, mainOutcome, pending, trace>>
  /\ UNCHANGED <<calc, args, params, start, scale, marker, style, attempts, marked, nodeIds,
                 idx, uniqueId, appliedZoomFactor, boxModels, outcome, closed>>

M_CenterSettle ==
  /\ pc = "m_centerWait"
  /\ Log(Wait(CenterSettle))
  /\ pc' = "m_zoom"
  /\ UNCHANGED <<calc, args, params, start, pageVars, callVars, endVars>>

\* elementPositions, pushed in the first pass: one per node handle.
elementPositions(ns) == [i \in 1..Len(ns) |-> ElemRect(ns[i])]

M_Zoom ==
  /\ pc = "m_zoom"
  /\ LET z == MultiZoom(params, elementPositions(nodeIds)) IN
       /\ appliedZoomFactor' = z
       /\ IF z # 100
          THEN /\ \E ok \in BOOLEAN :
                    /\ Log2(Local("computeZoom"), Req("Emulation.setPageScaleFactor", z, R(ok)))
                    /\ IF ok
                       THEN /\ scale' = z
                            /\ pc' = "m_zoomWait"
                            /\ UNCHANGED <<mainOutcome, pending>>
                       ELSE /\ Throw("ProtocolError", "m_reset")
                            /\ UNCHANGED scale
          ELSE /\ Log(Local("computeZoom"))
               /\ pc' = "m_box1"
               /\ UNCHANGED <<scale, mainOutcome, pending>>
  /\ UNCHANGED <<calc, args, params, start, scroll, marker, style, attempts, marked, nodeIds,
                 idx, uniqueId, centered, boxModels, outcome, closed>>

M_ZoomSettle ==
  /\ pc = "m_zoomWait"
  /\ Log(Wait(ZoomSettle))
  /\ pc' = "m_box1"
  /\ UNCHANGED <<calc, args, params, start, pageVars, callVars, endVars>>

\* Second pass, element idx: updated box model, or the first-pass one
M_MeasureFinal ==
  /\ pc = "m_box1"
  /\ \E reply \in BoxModelReplies(nodeIds[idx]) :
       /\ Log(Req("DOM.getBoxModel", 0, reply))
       /\ IF reply = "rejected"
          THEN Throw("ProtocolError", "m_reset") /\ UNCHANGED boxModels
          ELSE /\ boxModels' = IF reply = "model"
                               THEN [boxModels EXCEPT ![idx] = "updated"]
                               ELSE boxModels
               /\ pc' = "m_computed"
               /\ UNCHANGED <<mainOutcome, pending>>
  /\ UNCHANGED <<calc, args, params, start, pageVars, attempts, marked, nodeIds, idx,
                 uniqueId, appliedZoomFactor, centered, outcome, closed>>

M_ComputedStyle ==
  /\ pc = "m_computed"
  /\ PlainSend("m_computed", "CSS.getComputedStyleForNode", "m_matched", "m_reset")

\* Second pass, element idx: the cascade, then elements.push and the next i
M_MatchedStyles ==
  /\ pc = "m_matched"
  /\ \E ok \in BOOLEAN :
       /\ Log(Req("CSS.getMatchedStylesForNode", 0, R(ok)))
       /\ IF ok
          THEN /\ IF idx < Len(nodeIds)
                  THEN idx' = idx + 1 /\ pc' = "m_box1"
                  ELSE idx' = 1 /\ pc' = "m_highlight"
               /\ UNCHANGED <<mainOutcome, pending>>
          ELSE Throw("ProtocolError", "m_reset") /\ UNCHANGED idx
  /\ UNCHANGED <<calc, args, params, start, pageVars, attempts, marked, nodeIds, uniqueId,
                 appliedZoomFactor, centered, boxModels, outcome, closed>>

M_Highlight ==
  /\ pc = "m_highlight"
  /\ PlainSend("m_highlight", "Overlay.hideHighlight", "m_highlightWait", "m_reset")

\* await new Promise(resolve => setTimeout(resolve, 200))
M_HighlightWait ==
  /\ pc = "m_highlightWait"
  /\ Log(Wait(HighlightSettle))
  /\ pc' = "m_capture"
  /\ UNCHANGED <<calc, args, params, start, pageVars, callVars, endVars>>

M_Capture ==
  /\ pc = "m_capture"
  /\ \E reply \in {"rejected", "nodata", "data"} :
       /\ Log(Req("Page.captureScreenshot", 0, reply))
       /\ CASE reply = "rejected" -> Throw("ProtocolError", "m_reset")
            [] reply = "nodata" -> Throw("CaptureFailed", "m_reset")
            [] reply = "data" -> pc' = "m_annotate" /\ UNCHANGED <<mainOutcome, pending>>
  /\ UNCHANGED <<calc, args, params, start, pageVars, callVars, outcome, closed>>

M_Annotate ==
  /\ pc = "m_annotate"
  /\ \E ok \in BOOLEAN :
       Log(Local(IF ok THEN "annotate" ELSE "annotateFailed"))
  /\ pc' = "m_hide"
  /\ UNCHANGED <<calc, args, params, start, pageVars, callVars, endVars>>

M_HideHighlight ==
  /\ pc = "m_hide"
  /\ PlainSend("m_hide", "Overlay.hideHighlight", "m_return", "m_reset")

\* calculateElementRelationships(nodeData); return result
M_Return ==
  /\ pc = "m_return"
  /\ Log2(RelationshipsOver(boxModels), Local("assemble"))
  /\ pending' = "Multi"
  /\ mainOutcome' = "Multi"
  /\ pc' = "m_reset"
  /\ UNCHANGED <<calc, args, params, start, pageVars, callVars, outcome, closed>>

\* finally { try { if (appliedZoomFactor !== 1) resetViewportScale(cdp) ...
M_ResetViewportScale ==
  /\ pc = "m_reset"
  /\ IF NeedsReset(appliedZoomFactor)
     THEN /\ \E ok \in BOOLEAN :
               /\ Log(Req("Emulation.setPageScaleFactor", 100, R(ok)))
               /\ IF ok
                  THEN scale' = 100 /\ pc' = "m_cleanAll" /\ UNCHANGED pending
                  ELSE /\ pending' = SwallowCleanupError(pending)
                       /\ pc' = "o_cleanup"
                       /\ UNCHANGED scale
     ELSE /\ pc' = "m_cleanAll"
          /\ UNCHANGED <<scale, pending, trace>>
  /\ UNCHANGED <<calc, args, params, start, scroll, marker, style, callVars, mainOutcome,
                 outcome, closed>>


\* ------------------------------- inspectElement, first revision (body)
\* DOM.querySelector(css_selector); if (!nodeResult.nodeId) throw ...
L_QuerySelector ==
  /\ pc = "l_query"
  /\ \E reply \in {"rejected"} \cup (IF args.matching = {} THEN {"none"} ELSE {"node"}) :
       /\ Log(Req("DOM.querySelector", 0, reply))
       /\ CASE reply = "rejected" -> Throw("ProtocolError", "o_close") /\ UNCHANGED nodeIds
            [] reply = "none" -> Throw("ElementNotFound", "o_close") /\ UNCHANGED nodeIds
            [] reply = "node" ->
                 /\ nodeIds' = <<FirstMatch(args)>>
                 /\ pc' = "l_box"
                 /\ UNCHANGED <<mainOutcome, pending>>
  /\ UNCHANGED <<calc, args, params, start, pageVars, attempts, marked, idx, uniqueId,
                 appliedZoomFactor, centered, boxModels, outcome, closed>>

\* DOM.getBoxModel; if (!boxModelResult.model) throw ...
L_GetBoxModel ==
  /\ pc = "l_box"
  /\ \E reply \in BoxModelReplies(nodeIds[1]) :
       /\ Log(Req("DOM.getBoxModel", 0, reply))
       /\ CASE reply = "rejected" -> Throw("ProtocolError", "o_close") /\ UNCHANGED boxModels
            [] reply # "rejected" /\ MeasurementMissing(reply) ->
                 Throw("ElementNotVisible", "o_close") /\ UNCHANGED boxModels
            [] OTHER ->
                 /\ boxModels' = <<"initial">>
                 /\ pc' = "l_computed"
                 /\ UNCHANGED <<mainOutcome, pending>>
  /\ UNCHANGED <<calc, args, params, start, pageVars, attempts, marked, nodeIds, idx,
                 uniqueId, appliedZoomFactor, centered, outcome, closed>>

L_ComputedStyle ==
  /\ pc = "l_computed"
  /\ PlainSend("l_computed", "CSS.getComputedStyleForNode", "l_matched", "o_close")

L_MatchedStyles ==
  /\ pc = "l_matched"
  /\ PlainSend("l_matched", "CSS.getMatchedStylesForNode", "l_highlight", "o_close")

L_Highlight ==
  /\ pc = "l_highlight"
  /\ PlainSend("l_highlight", "Overlay.highlightNode", "l_capture", "o_close")

L_Capture ==
  /\ pc = "l_capture"
  /\ \E reply \in {"rejected", "nodata", "data"} :
       /\ Log(Req("Page.captureScreenshot", 0, reply))
       /\ CASE reply = "rejected" -> Throw("ProtocolError", "o_close")
            [] reply = "nodata" -> Throw("CaptureFailed", "o_close")
            [] reply = "data" -> pc' = "l_hide" /\ UNCHANGED <<mainOutcome, pending>>
  /\ UNCHANGED <<calc, args, params, start, pageVars, callVars, outcome, closed>>

L_HideHighlight ==
  /\ pc = "l_hide"
  /\ PlainSend("l_hide", "Overlay.hideHighlight", "l_return", "o_close")

L_Return ==
  /\ pc = "l_return"
  /\ Log(Local("assemble"))
  /\ pending' = "Single"
  /\ mainOutcome' = "Single"
  /\ pc' = "o_close"
  /\ UNCHANGED <<calc, args, params, start, pageVars, callVars, outcome, closed>>

\* ------------------------------------------- inspectElement: finally block
\* What BrowserScripts.cleanupInspectIds does in the page.
CleanupInspectIdsEffect(mk) == [n \in Nodes |-> "none"]

\* ... Runtime.evaluate(cleanupInspectIds()) } catch { console.warn } }
M_CleanupInspectIds ==
  /\ pc = "m_cleanAll"
  /\ \E ok \in BOOLEAN :
       /\ Log(Req("Runtime.evaluate:cleanupInspectIds", 0, R(ok)))
       /\ IF ok
          THEN marker' = CleanupInspectIdsEffect(marker) /\ UNCHANGED pending
          ELSE pending' = SwallowCleanupError(pending) /\ UNCHANGED marker
  /\ pc' = "o_cleanup"
  /\ UNCHANGED <<calc, args, params, start, scale, scroll, style, callVars, mainOutcome,
                 outcome, closed>>

\* The marker removal placed at the end of the try body instead of in finally.
CleanupOnlyOnSuccess ==
  /\ pc = "o_cleanup"
  /\ IF pending \in Results
     THEN \E ok \in BOOLEAN :
            /\ Log(Req("Runtime.evaluate:cleanupInspectIds", 0, R(ok)))
            /\ IF ok
               THEN marker' = CleanupInspectIdsEffect(marker)
               ELSE UNCHANGED marker
     ELSE UNCHANGED <<marker, trace>>
  /\ pc' = "o_close"
  /\ UNCHANGED <<calc, args, params, start, scale, scroll, style, callVars, endVars>>

\* try { Runtime.evaluate(cleanupInspectIds()) } catch { console.warn }
CleanupInspectIds ==
  /\ pc = "o_cleanup"
  /\ \E ok \in BOOLEAN :
       /\ Log(Req("Runtime.evaluate:cleanupInspectIds", 0, R(ok)))
       /\ IF ok
          THEN marker' = CleanupInspectIdsEffect(marker) /\ UNCHANGED pending
          ELSE pending' = SwallowCleanupError(pending) /\ UNCHANGED marker
  /\ pc' = "o_close"
  /\ UNCHANGED <<calc, args, params, start, scale, scroll, style, callVars, mainOutcome,
                 outcome, closed>>

\* cdp.close(); then the completion reaches the caller.
Close ==
  /\ pc = "o_close"
  /\ Log(CloseEv)
  /\ closed' = closed + 1
  /\ outcome' = pending
  /\ pc' = "done"
  /\ UNCHANGED <<calc, args, params, start, pageVars, callVars, mainOutcome, pending>>

\* ------------------------------------------ geometry functions on their own
\* Border boxes the functions are evaluated on: the page's layouts, an
\* element of zero area and one larger than the viewport.
Boxes ==
  {ElemRect(n) : n \in 1..4}
    \cup {[x |-> 10, y |-> 10, width |-> 0, height |-> 0],
          [x |-> 10, y |-> 10, width |-> 200, height |-> 100]}

ZoomParams == {a \in [autoZoom : BOOLEAN, zoomFactor : ZoomArgs] :
                 a.zoomFactor \in {0, 150} \/ a.autoZoom = (a.zoomFactor = 400)}

\* Sequences of 1..n boxes.
BoxSeqs(n) == UNION {[1..k -> Boxes] : k \in 1..n}

\* getBoundingClientRect reports fractions of a pixel: the relationship
\* calculator works on boxes measured in 1/SubPx of a pixel.
SubPx == 4

\* Offsets, in 1/SubPx pixel, by which successive elements are displaced.
SubShifts == {0, 1, 2}

\* nodeData, as pushed in the first pass: the label `${selector}[${i}]` is
\* kept as the index, the box model as its border box in 1/SubPx pixel;
\* element i lies (i - 1) * sub further right and down than its whole-pixel
\* layout.
nodeDataOf(boxes, sub) ==
  [i \in 1..Len(boxes) |->
     [selector |-> i - 1,
      border |-> [x |-> SubPx * boxes[i].x + (i - 1) * sub,
                  y |-> SubPx * boxes[i].y + (i - 1) * sub,
                  width |-> SubPx * boxes[i].width,
                  height |-> SubPx * boxes[i].height]]]

\* Math.floor of a length q >= 0 given in 1/SubPx pixel.
FloorPx(q) == q \div SubPx
\* Math.round of a length q >= 0 given in 1/SubPx pixel.
RoundPx(q) == (2 * q + SubPx) \div (2 * SubPx)

\* Math.round(Math.sqrt(dx^2 + dy^2)) pixels, for dx and dy given in
\* 1/(2 * SubPx) pixel.
RoundHypotPx(dx, dy) ==
  LET d2 == dx * dx + dy * dy IN
  CHOOSE r \in 0..((Abs(dx) + Abs(dy)) \div (2 * SubPx) + 1) :
    /\ (r = 0 \/ ((2 * r - 1) * SubPx) * ((2 * r - 1) * SubPx) <= d2)
    /\ d2 < ((2 * r + 1) * SubPx) * ((2 * r + 1) * SubPx)

\* Math.abs(d) < tolerance, d in 1/unit pixel.
WithinToleranceStrict(d, unit) == Abs(d) < unit * ALIGNMENT_TOLERANCE
\* Math.abs(d) <= tolerance, d in 1/unit pixel.
WithinTolerance(d, unit) == Abs(d) <= unit * ALIGNMENT_TOLERANCE

\* The horizontal gap measured only when element 1 is the left one.
calculatePairwiseOneSided(element1, element2) ==
  LET box1 == element1.border
      box2 == element2.border
      c1x == 2 * box1.x + box1.width
      c1y == 2 * box1.y + box1.height
      c2x == 2 * box2.x + box2.width
      c2y == 2 * box2.y + box2.height
      horizontalDistance ==
        IF box1.x + box1.width < box2.x THEN box2.x - (box1.x + box1.width)
        ELSE 0
      verticalDistance ==
        IF box1.y + box1.height < box2.y THEN box2.y - (box1.y + box1.height)
        ELSE IF box2.y + box2.height < box1.y THEN box1.y - (box2.y + box2.height)
        ELSE 0
  IN [from |-> element1.selector,
      to |-> element2.selector,
      distance |->
        [horizontal |-> RoundPx(horizontalDistance),
         vertical |-> RoundPx(verticalDistance),
         center_to_center |->
           RoundHypotPx(c2x - c1x, c2y - c1y)],
      alignment |->
        [top |-> WithinTolerance(box1.y - box2.y, SubPx),
         bottom |-> WithinTolerance((box1.y + box1.height) - (box2.y + box2.height),
                                    SubPx),
         left |-> WithinTolerance(box1.x - box2.x, SubPx),
         right |-> WithinTolerance((box1.x + box1.width) - (box2.x + box2.width),
                                   SubPx),
         vertical_center |-> WithinTolerance(c1y - c2y, 2 * SubPx),
         horizontal_center |-> WithinTolerance(c1x - c2x, 2 * SubPx)]]

\* calculatePairwiseRelationship.  Boxes are in 1/SubPx pixel, centers are
\* kept doubled; the three distances are rounded to whole pixels.
calculatePairwiseRelationship(element1, element2) ==
  LET box1 == element1.border
      box2 == element2.border
      c1x == 2 * box1.x + box1.width
      c1y == 2 * box1.y + box1.height
      c2x == 2 * box2.x + box2.width
      c2y == 2 * box2.y + box2.height
      horizontalDistance ==
        IF box1.x + box1.width < box2.x THEN box2.x - (box1.x + box1.width)
        ELSE IF box2.x + box2.width < box1.x THEN box1.x - (box2.x + box2.width)
        ELSE 0
      verticalDistance ==
        IF box1.y + box1.height < box2.y THEN box2.y - (box1.y + box1.height)
        ELSE IF box2.y + box2.height < box1.y THEN box1.y - (box2.y + box2.height)
        ELSE 0
  IN [from |-> element1.selector,
      to |-> element2.selector,
      distance |->
        [horizontal |-> RoundPx(horizontalDistance),
         vertical |-> RoundPx(verticalDistance),
         center_to_center |->
           RoundHypotPx(c2x - c1x, c2y - c1y)],
      alignment |->
        [top |-> WithinTolerance(box1.y - box2.y, SubPx),
         bottom |-> WithinTolerance((box1.y + box1.height) - (box2.y + box2.height),
                                    SubPx),
         left |-> WithinTolerance(box1.x - box2.x, SubPx),
         right |-> WithinTolerance((box1.x + box1.width) - (box2.x + box2.width),
                                   SubPx),
         vertical_center |-> WithinTolerance(c1y - c2y, 2 * SubPx),
         horizontal_center |-> WithinTolerance(c1x - c2x, 2 * SubPx)]]

\* for (i = 0; ...) for (j = i + 1; ...) relationships.push(...): the rest of
\* the loops from (i, j) on.
RECURSIVE RelationshipsFrom(_, _, _)
RelationshipsFrom(nodeData, i, j) ==
  IF i > Len(nodeData) THEN <<>>
  ELSE IF j > Len(nodeData) THEN RelationshipsFrom(nodeData, i + 1, i + 2)
  ELSE <<calculatePairwiseRelationship(nodeData[i], nodeData[j])>>
         \o RelationshipsFrom(nodeData, i, j + 1)

\* The inner loop of the first row started at the element itself.
calculateRelationshipsFromSelf(nodeData) == RelationshipsFrom(nodeData, 1, 1)
calculateElementRelationships(nodeData) == RelationshipsFrom(nodeData, 1, 2)

\* No call of inspectElement is in progress.
NoCall ==
  /\ args = LegacyArgs(TRUE, {})
  /\ params = NoParams
  /\ scale = 100
  /\ scroll = 0
  /\ start = [scale |-> scale, scroll |-> scroll]
  /\ marker = [n \in Nodes |-> "none"]
  /\ style = [n \in Nodes |-> "orig"]
  /\ attempts = 0
  /\ marked = <<>>
  /\ nodeIds = <<>>
  /\ idx = 0
  /\ uniqueId = "none"
  /\ appliedZoomFactor = 100
  /\ centered = FALSE
  /\ boxModels = <<>>
  /\ mainOutcome = "none"
  /\ pending = "none"
  /\ outcome = "none"
  /\ closed = 0
  /\ trace = <<>>

\* The functions are evaluated on boxes and zoom arguments drawn here.
CalcInit ==
  /\ pc = "calc"
  /\ calc \in [op : {"ready"}, boxes : BoxSeqs(MaxElems), a : ZoomParams,
                factor : {0}, center : {FALSE}, sub : {0},
                relationships : {<<>>}, swapped : {<<>>}]
  /\ NoCall

CalcFrame == UNCHANGED <<pc, args, params, start, pageVars, callVars, endVars, trace>>

\* The zoom block of the single path on the first box.
CalcSingleZoom ==
  /\ pc = "calc" /\ calc.op = "ready"
  /\ calc' = [calc EXCEPT !.op = "singleZoom",
                          !.factor = SingleZoom(calc.a, calc.boxes[1])]
  /\ CalcFrame

\* The zoom block of the multi path on the whole group.
CalcMultiZoom ==
  /\ pc = "calc" /\ calc.op = "ready"
  /\ Len(calc.boxes) >= 2
  /\ calc' = [calc EXCEPT !.op = "multiZoom",
                          !.factor = MultiZoom(calc.a, calc.boxes)]
  /\ CalcFrame

\* shouldCenterElement on the first box.
CalcShouldCenter ==
  /\ pc = "calc" /\ calc.op = "ready"
  /\ calc' = [calc EXCEPT !.op = "shouldCenter",
                          !.center = shouldCenterElement(calc.boxes[1], Viewport)]
  /\ CalcFrame

\* calculateElementRelationships(nodeData)
CalcRelationships ==
  /\ pc = "calc" /\ calc.op = "ready"
  /\ \E sub \in SubShifts :
       calc' = [calc EXCEPT
                  !.op = "relationships",
                  !.sub = sub,
                  !.relationships =
                     calculateElementRelationships(nodeDataOf(calc.boxes, sub))]
  /\ CalcFrame

\* calculatePairwiseRelationship on two elements, in both orders.
CalcPair ==
  /\ pc = "calc" /\ calc.op = "ready"
  /\ \E i \in 1..Len(calc.boxes), j \in 1..Len(calc.boxes), sub \in SubShifts :
       LET nodeData == nodeDataOf(calc.boxes, sub) IN
       /\ i # j
       /\ calc' = [calc EXCEPT
                     !.op = "pair",
                     !.sub = sub,
                     !.relationships =
                        <<calculatePairwiseRelationship(nodeData[i], nodeData[j])>>,
                     !.swapped =
                        <<calculatePairwiseRelationship(nodeData[j], nodeData[i])>>]
  /\ CalcFrame

\* ------------------------------------------------- box model of an element
\* The four widths of a margin, border or padding.
Sides(l, r, t, b) == [left |-> l, right |-> r, top |-> t, bottom |-> b]

\* Border and padding widths as computed styles report them.
SideWidths == {Sides(0, 0, 0, 0), Sides(1, 1, 1, 1), Sides(1, 2, 0, 3), Sides(3, 3, 3, 3)}

\* Margins may be negative.
MarginWidths == SideWidths \cup {Sides(-2, 0, -1, 0)}

\* Bounding rects as measured: a transformed or collapsed element measures
\* less than its border and padding widths add up to.
MeasuredRects ==
  {[x |-> 10, y |-> 10, width |-> 20, height |-> 10],
   [x |-> 10, y |-> 10, width |-> 4, height |-> 4],
   [x |-> 0, y |-> 0, width |-> 0, height |-> 0]}

\* ElementMetrics, as far as the box model reads them.
Metrics == [viewport : MeasuredRects, margin : MarginWidths,
            padding : SideWidths, border : SideWidths]

NoBoxModel == [margin |-> <<>>, border |-> <<>>, padding |-> <<>>, content |-> <<>>]

\* The measured rect taken for the content box.
convertElementMetricsAsContentBox(metrics) ==
  LET borderBox == metrics.viewport
      margin == metrics.margin
      padding == metrics.padding
      border == metrics.border
  IN [margin |->
        [x |-> borderBox.x - border.left - padding.left - margin.left,
         y |-> borderBox.y - border.top - padding.top - margin.top,
         width |-> borderBox.width + border.left + border.right + padding.left
                     + padding.right + margin.left + margin.right,
         height |-> borderBox.height + border.top + border.bottom + padding.top
                      + padding.bottom + margin.top + margin.bottom],
      border |->
        [x |-> borderBox.x - border.left - padding.left,
         y |-> borderBox.y - border.top - padding.top,
         width |-> borderBox.width + border.left + border.right + padding.left
                     + padding.right,
         height |-> borderBox.height + border.top + border.bottom + padding.top
                      + padding.bottom],
      padding |->
        [x |-> borderBox.x - padding.left,
         y |-> borderBox.y - padding.top,
         width |-> borderBox.width + padding.left + padding.right,
         height |-> borderBox.height + padding.top + padding.bottom],
      content |->
        [x |-> borderBox.x,
         y |-> borderBox.y,
         width |-> borderBox.width,
         height |-> borderBox.height]]

\* convertElementMetricsToBoxModel
convertElementMetricsToBoxModel(metrics) ==
  LET borderBox == metrics.viewport
      margin == metrics.margin
      padding == metrics.padding
      border == metrics.border
  IN [margin |->
        [x |-> borderBox.x - margin.left,
         y |-> borderBox.y - margin.top,
         width |-> borderBox.width + margin.left + margin.right,
         height |-> borderBox.height + margin.top + margin.bottom],
      border |->
        [x |-> borderBox.x,
         y |-> borderBox.y,
         width |-> borderBox.width,
         height |-> borderBox.height],
      padding |->
        [x |-> borderBox.x + border.left,
         y |-> borderBox.y + border.top,
         width |-> borderBox.width - border.left - border.right,
         height |-> borderBox.height - border.top - border.bottom],
      content |->
        [x |-> borderBox.x + border.left + padding.left,
         y |-> borderBox.y + border.top + padding.top,
         width |-> borderBox.width - border.left - border.right - padding.left
                     - padding.right,
         height |-> borderBox.height - border.top - border.bottom - padding.top
                      - padding.bottom]]

\* The function is evaluated on metrics drawn here.
MetricsInit ==
  /\ pc = "calc"
  /\ calc \in [op : {"metrics"}, metrics : Metrics, boxModel : {NoBoxModel}]
  /\ NoCall

\* convertElementMetricsToBoxModel(metrics)
CalcBoxModel ==
  /\ pc = "calc" /\ calc.op = "metrics"
  /\ calc' = [calc EXCEPT !.op = "boxModel",
                          !.boxModel = convertElementMetricsToBoxModel(calc.metrics)]
  /\ CalcFrame

\* ------------------------------------------------- screenshot annotation
\* Colours as [r, g, b, a], each 0..255.
Rgba(r, g, b, a) == [r |-> r, g |-> g, b |-> b, a |-> a]

\* HIGHLIGHT_COLORS (alpha 0.8 kept as 204 of 255)
HIGHLIGHT_COLORS ==
  <<Rgba(0, 0, 255, 204), Rgba(0, 255, 0, 204), Rgba(255, 255, 0, 204),
    Rgba(255, 128, 0, 204), Rgba(255, 0, 255, 204)>>

\* The viewport the screenshots below are taken of.
ShotViewport == [width |-> 400, height |-> 300]

\* screenshotOptions.clip: absent (<<>>) or one region.
Clips ==
  {<<>>,
   <<[x |-> 9, y |-> 11, width |-> 20, height |-> 10]>>,
   <<[x |-> 5, y |-> 4, width |-> 200, height |-> 100]>>}

\* Device pixel ratios of the capture, and a stray extra pixel per side.
DeviceScales == {1, 2}
ExtraPixels == {0, 1}

\* Where the annotation may throw.
FailPoints == {"none", "read", "draw", "encode"}

\* Box models that are drawn.
DrawnBoxModels ==
  {convertElementMetricsToBoxModel(m) :
     m \in {n \in Metrics : /\ n.border = Sides(1, 1, 1, 1)
                            /\ n.padding = Sides(1, 2, 0, 3)
                            /\ n.margin \in {Sides(3, 3, 3, 3), Sides(-2, 0, -1, 0)}}}

\* nodeData of 1..n elements.
DrawnSeqs(n) == UNION {[1..k -> DrawnBoxModels] : k \in 1..n}

\* scaleRect; the scales are numerators, so that x and width come out in
\* 1/expectedWidth pixel and y and height in 1/expectedHeight pixel.
scaleRect(rect, scaleX, scaleY) ==
  [x |-> rect.x * scaleX,
   y |-> rect.y * scaleY,
   width |-> rect.width * scaleX,
   height |-> rect.height * scaleY]

\* The clip origin subtracted without a lower bound.
adjustRectUnclamped(rect, clip) ==
  [x |-> rect.x - clip.x,
   y |-> rect.y - clip.y,
   width |-> rect.width,
   height |-> rect.height]

\* adjustRect
adjustRect(rect, clip) ==
  [x |-> Max(0, rect.x - clip.x),
   y |-> Max(0, rect.y - clip.y),
   width |-> rect.width,
   height |-> rect.height]

\* Steps 1 to 3 of drawHighlightOnScreenshot: the box model in screenshot
\* coordinates.  image is the decoded bitmap's size.
adjustedBoxModel(boxModel, viewportInfo, clipRegion, image) ==
  LET expectedWidth == IF clipRegion # <<>> THEN clipRegion[1].width
                       ELSE viewportInfo.width
      expectedHeight == IF clipRegion # <<>> THEN clipRegion[1].height
                        ELSE viewportInfo.height
      \* Math.abs(actualScaleX - 1) > 0.01 || Math.abs(actualScaleY - 1) > 0.01
      rescale == \/ 100 * Abs(image.width - expectedWidth) > expectedWidth
                 \/ 100 * Abs(image.height - expectedHeight) > expectedHeight
      scaleX == IF rescale THEN image.width ELSE expectedWidth
      scaleY == IF rescale THEN image.height ELSE expectedHeight
      scaled == [part \in {"content", "padding", "border", "margin"} |->
                   scaleRect(boxModel[part], scaleX, scaleY)]
  IN IF clipRegion # <<>>
     THEN LET scaledClip == scaleRect(clipRegion[1], scaleX, scaleY)
          IN [part \in {"content", "padding", "border", "margin"} |->
                adjustRect(scaled[part], scaledClip)]
     ELSE scaled

Outline(rect, color, thickness) ==
  [kind |-> "outline", rect |-> rect, color |-> color, thickness |-> thickness]
Filled(rect, color) ==
  [kind |-> "fill", rect |-> rect, color |-> color, thickness |-> 0]
Rulers(rect) ==
  [kind |-> "rulers", rect |-> rect, color |-> Rgba(255, 0, 255, 255), thickness |-> 1]

\* drawHighlightOnScreenshot: the buffer it returns.  The captured buffer
\* is [bytes |-> "captured", width, height]; an annotated one lists what was
\* drawn on it, in order.
drawHighlightOnScreenshot(screenshotBuffer, boxModel, viewportInfo, clipRegion, fail) ==
  IF fail # "none" THEN screenshotBuffer
  ELSE
    LET image == [width |-> screenshotBuffer.width, height |-> screenshotBuffer.height]
        adjusted == adjustedBoxModel(boxModel, viewportInfo, clipRegion, image)
    IN [bytes |-> "annotated",
        width |-> image.width,
        height |-> image.height,
        drawn |-> <<Outline(adjusted.margin, Rgba(255, 255, 0, 255), 1),
                    Outline(adjusted.border, Rgba(255, 0, 0, 255), 2),
                    Outline(adjusted.padding, Rgba(0, 255, 0, 255), 1),
                    Filled(adjusted.content, Rgba(0, 120, 255, 68)),
                    Outline(adjusted.content, Rgba(0, 120, 255, 255), 2),
                    Rulers(adjusted.border)>>]

\* The size Page.captureScreenshot delivers for a clip or the viewport.
CapturedBuffer(viewportInfo, clipRegion, dpr, extra) ==
  LET w == IF clipRegion # <<>> THEN clipRegion[1].width ELSE viewportInfo.width
      h == IF clipRegion # <<>> THEN clipRegion[1].height ELSE viewportInfo.height
  IN [bytes |-> "captured", width |-> w * dpr + extra, height |-> h * dpr + extra]

\* The annotation is evaluated on captures drawn here.
DrawInit ==
  /\ pc = "calc"
  /\ \E clip \in Clips, dpr \in DeviceScales, extra \in ExtraPixels :
       calc \in [op : {"captured"}, nodeData : DrawnSeqs(MaxElems), clip : {clip},
                 screenshotBuffer : {CapturedBuffer(ShotViewport, clip, dpr, extra)},
                 fail : FailPoints, out : {<<>>}]
  /\ NoCall

\* The annotation of the single path.
CalcDrawSingle ==
  /\ pc = "calc" /\ calc.op = "captured"
  /\ Len(calc.nodeData) = 1
  /\ calc' = [calc EXCEPT
                !.op = "drawnSingle",
                !.out = drawHighlightOnScreenshot(calc.screenshotBuffer, calc.nodeData[1],
                                                  ShotViewport, calc.clip, calc.fail)]
  /\ CalcFrame

\* The annotation of the multi path: if (nodeData.length > 0) the first
\* element's box model is drawn.
CalcDrawMultiple ==
  /\ pc = "calc" /\ calc.op = "captured"
  /\ Len(calc.nodeData) >= 2
  /\ calc' = [calc EXCEPT
                !.op = "drawnMultiple",
                !.out = drawHighlightOnScreenshot(calc.screenshotBuffer, calc.nodeData[1],
                                                  ShotViewport, calc.clip, calc.fail)]
  /\ CalcFrame

\* ------------------------------------------------------ style classifier
\* Strings are sequences of characters.
Letters == {"a", "b", "c", "d", "e", "f", "h", "i", "l", "n", "o", "p", "r",
            "t", "v", "x", "A", "B", "C", "D", "E"}
Digits == {"0", "1", "2", "3", "4", "5", "6", "7", "8", "9"}
\* \w and [\w-]
WordChars == Letters \cup Digits \cup {"_"}
WordDash == WordChars \cup {"-"}
\* [\w\-="':]
AttrChars == WordDash \cup {"=", "'", ":"}
\* Every character of the selectors and values below.
Chars == AttrChars \cup {"#", ".", "[", "]", "(", ")", " ", ",", "*"}

\* The character at position i, "" outside the string.
At(s, i) == IF i >= 1 /\ i <= Len(s) THEN s[i] ELSE ""

\* The last position of the longest run of characters of class from i on;
\* i - 1 when the run is empty.
RECURSIVE RunEnd(_, _, _)
RunEnd(s, i, class) ==
  IF i <= Len(s) /\ s[i] \in class THEN RunEnd(s, i + 1, class) ELSE i - 1

\* \b after position e
BoundaryAfter(s, e) == (At(s, e) \in WordChars) # (At(s, e + 1) \in WordChars)

\* Where a match of /#[\w-]+/ starting at i ends; 0 for no match.
MatchId(s, i) ==
  IF At(s, i) = "#" /\ At(s, i + 1) \in WordDash THEN RunEnd(s, i + 1, WordDash)
  ELSE 0

\* Where a match of /\.[\w-]+|\[[\w\-="':]+\]|:[\w-]+(?:\([^)]*\))?/
\* starting at i ends; 0 for no match.
MatchClass(s, i) ==
  IF At(s, i) = "." /\ At(s, i + 1) \in WordDash THEN RunEnd(s, i + 1, WordDash)
  ELSE IF /\ At(s, i) = "[" /\ At(s, i + 1) \in AttrChars
          /\ At(s, RunEnd(s, i + 1, AttrChars) + 1) = "]"
       THEN RunEnd(s, i + 1, AttrChars) + 1
  ELSE IF At(s, i) = ":" /\ At(s, i + 1) \in WordDash
       THEN LET e == RunEnd(s, i + 1, WordDash)
                close == RunEnd(s, e + 2, Chars \ {")"}) + 1
            IN IF At(s, e + 1) = "(" /\ At(s, close) = ")" THEN close ELSE e
  ELSE 0

\* The match of /\b[a-zA-Z][\w-]*\b|::[\w-]+/ starting at i: where it ends
\* (0 for no match) and whether it starts with "::".
MatchElement(s, i) ==
  IF At(s, i) \in Letters /\ At(s, i - 1) \notin WordChars
  THEN LET run == RunEnd(s, i + 1, WordDash)
           ends == {e \in i..run : BoundaryAfter(s, e)}
       IN [end |-> CHOOSE e \in ends : \A f \in ends : f <= e, pseudo |-> FALSE]
  ELSE IF At(s, i) = ":" /\ At(s, i + 1) = ":" /\ At(s, i + 2) \in WordDash
  THEN [end |-> RunEnd(s, i + 2, WordDash), pseudo |-> TRUE]
  ELSE [end |-> 0, pseudo |-> FALSE]

\* (selector.match(/#[\w-]+/g) || []).length, from position i on
RECURSIVE CountIds(_, _)
CountIds(s, i) ==
  IF i > Len(s) THEN 0
  ELSE IF MatchId(s, i) # 0 THEN 1 + CountIds(s, MatchId(s, i) + 1)
  ELSE CountIds(s, i + 1)

RECURSIVE CountClasses(_, _)
CountClasses(s, i) ==
  IF i > Len(s) THEN 0
  ELSE IF MatchClass(s, i) # 0 THEN 1 + CountClasses(s, MatchClass(s, i) + 1)
  ELSE CountClasses(s, i + 1)

\* selector.match(/\b[a-zA-Z][\w-]*\b|::[\w-]+/g) || [], from position i
\* on: each match as [start, end, pseudo].
RECURSIVE ElementMatches(_, _)
ElementMatches(s, i) ==
  IF i > Len(s) THEN <<>>
  ELSE LET m == MatchElement(s, i) IN
       IF m.end # 0
       THEN <<[start |-> i, end |-> m.end, pseudo |-> m.pseudo]>>
              \o ElementMatches(s, m.end + 1)
       ELSE ElementMatches(s, i + 1)

\* String(n) for n >= 0
RECURSIVE Decimal(_)
Decimal(n) ==
  LET digit == <<"0", "1", "2", "3", "4", "5", "6", "7", "8", "9">>[(n % 10) + 1]
  IN IF n < 10 THEN <<digit>> ELSE Decimal(n \div 10) \o <<digit>>

\* calculateSpecificity.  The elements++ inside the filter callback is
\* overwritten by the assignment of the filtered length.
calculateSpecificity(selector) ==
  IF selector = <<>> THEN <<"0", ",", "0", ",", "0", ",", "0">>
  ELSE
    LET inline == 0
        ids == CountIds(selector, 1)
        classes == CountClasses(selector, 1)
        elementMatches == ElementMatches(selector, 1)
        elements == Cardinality({k \in 1..Len(elementMatches) :
                                   ~elementMatches[k].pseudo})
    IN Decimal(inline) \o <<",">> \o Decimal(ids) \o <<",">>
         \o Decimal(classes) \o <<",">> \o Decimal(elements)

\* Selectors of matched rules: "", "#a.b.c div", "div p", "p::before",
\* "li:nth-child(2)", "a[x=b]", ".x-", "#a-b".
Selectors ==
  {<<>>,
   <<"#", "a", ".", "b", ".", "c", " ", "d", "i", "v">>,
   <<"d", "i", "v", " ", "p">>,
   <<"p", ":", ":", "b", "e", "f", "o", "r", "e">>,
   <<"l", "i", ":", "n", "t", "h", "-", "c", "h", "i", "l", "d", "(", "2", ")">>,
   <<"a", "[", "x", "=", "b", "]">>,
   <<".", "x", "-">>,
   <<"#", "a", "-", "b">>}

\* The function is evaluated on selectors drawn here.
SelectorInit ==
  /\ pc = "calc"
  /\ calc \in [op : {"selector"}, selector : Selectors, out : {<<>>},
                elementMatches : {<<>>}]
  /\ NoCall

\* calculateSpecificity(selector)
CalcSpecificity ==
  /\ pc = "calc" /\ calc.op = "selector"
  /\ calc' = [calc EXCEPT !.op = "specificity",
                          !.out = calculateSpecificity(calc.selector),
                          !.elementMatches = ElementMatches(calc.selector, 1)]
  /\ CalcFrame

\* truncateValue's limits: values up to MAX_VALUE_LENGTH are kept, longer
\* ones are cut to KEPT_LENGTH characters plus "...", font lists to
\* MAX_FONTS entries.
MAX_VALUE_LENGTH == 100
KEPT_LENGTH == 97
MAX_FONTS == 3

\* n times the character ch
Repeat(ch, n) == [i \in 1..n |-> ch]

\* A font list of n names of len characters each, separated by ", ".
RECURSIVE FontList(_, _)
FontList(n, len) ==
  IF n = 1 THEN Repeat("x", len)
  ELSE FontList(n - 1, len) \o <<",", " ">> \o Repeat("x", len)

\* value.substring(0, n)
Substring(value, n) == SubSeq(value, 1, Min(n, Len(value)))

\* f.trim(): only blanks occur as white space
RECURSIVE Trim(_)
Trim(f) ==
  IF f # <<>> /\ Head(f) = " " THEN Trim(Tail(f))
  ELSE IF f # <<>> /\ f[Len(f)] = " " THEN Trim(SubSeq(f, 1, Len(f) - 1))
  ELSE f

\* value.split(','), from position i on: the piece up to the next comma,
\* then the rest
RECURSIVE SplitFrom(_, _)
SplitFrom(value, i) ==
  LET commas == {c \in i..Len(value) : value[c] = ","} IN
  IF commas = {} THEN <<SubSeq(value, i, Len(value))>>
  ELSE LET next == CHOOSE c \in commas : \A d \in commas : c <= d
       IN <<SubSeq(value, i, next - 1)>> \o SplitFrom(value, next + 1)

\* fonts.join(', ')
RECURSIVE Join(_)
Join(fonts) ==
  IF fonts = <<>> THEN <<>>
  ELSE IF Len(fonts) = 1 THEN fonts[1]
  ELSE fonts[1] \o <<",", " ">> \o Join(Tail(fonts))

\* The cut taken after MAX_VALUE_LENGTH characters.
truncateValueKeepingLimit(property, value) ==
  IF Len(value) <= MAX_VALUE_LENGTH THEN value
  ELSE
    LET fonts == [k \in 1..Len(SplitFrom(value, 1)) |->
                    Trim(SplitFrom(value, 1)[k])]
    IN IF property = "font-family" /\ Len(fonts) > MAX_FONTS
       THEN Join(SubSeq(fonts, 1, MAX_FONTS)) \o <<",", " ", ".", ".", ".">>
       ELSE Substring(value, MAX_VALUE_LENGTH) \o <<".", ".", ".">>

\* truncateValue
truncateValue(property, value) ==
  IF Len(value) <= MAX_VALUE_LENGTH THEN value
  ELSE
    LET fonts == [k \in 1..Len(SplitFrom(value, 1)) |->
                    Trim(SplitFrom(value, 1)[k])]
    IN IF property = "font-family" /\ Len(fonts) > MAX_FONTS
       THEN Join(SubSeq(fonts, 1, MAX_FONTS)) \o <<",", " ", ".", ".", ".">>
       ELSE Substring(value, KEPT_LENGTH) \o <<".", ".", ".">>

\* Property names of computed styles.
Properties == {"font-family", "color", "background-image"}

\* Values: "A, B, C, D, E", "red", values of 99, 100, 101 and 150
\* characters, and font lists longer than 100 characters of 5, 3 and 2
\* names.
Values ==
  {<<"A", ",", " ", "B", ",", " ", "C", ",", " ", "D", ",", " ", "E">>,
   <<"r", "e", "d">>,
   Repeat("x", 99), Repeat("x", 100), Repeat("x", 101), Repeat("x", 150),
   FontList(5, 30), FontList(3, 40), FontList(2, 60)}

\* The function is evaluated on properties and values drawn here.
ValueInit ==
  /\ pc = "calc"
  /\ calc \in [op : {"value"}, property : Properties, value : Values, out : {<<>>}]
  /\ NoCall

\* truncateValue(property, value)
CalcTruncate ==
  /\ pc = "calc" /\ calc.op = "value"
  /\ calc' = [calc EXCEPT !.op = "truncated",
                          !.out = truncateValue(calc.property, calc.value)]
  /\ CalcFrame

\* -------------------------------------------------- style and rule filters
\* The group names of the taxonomy, and the groups requested by default.
GroupNames == {"layout", "box", "flexbox", "grid", "typography", "colors",
               "visual", "positioning", "custom"}
DEFAULT_PROPERTY_GROUPS == {"layout", "box", "typography", "colors"}

\* Properties that are surfaced whatever groups are requested.
EssentialProperties == {"display", "position", "width", "height"}

\* The one group a property belongs to.
GroupOf(property) ==
  CASE property \in {"display", "width", "height"} -> "layout"
    [] property \in {"position", "z-index"} -> "positioning"
    [] property \in {"margin-top", "padding-left"} -> "box"
    [] property \in {"font-family", "font-size"} -> "typography"
    [] property \in {"color", "background-image"} -> "colors"
    [] property \in {"opacity"} -> "visual"
    [] OTHER -> "custom"

\* shouldIncludeProperty: a requested name that is no group matches no
\* property.
shouldIncludeProperty(property, requestedGroups, includeAll) ==
  \/ includeAll
  \/ property \in EssentialProperties
  \/ GroupOf(property) \in requestedGroups

\* Property groups a caller requests.
RequestedGroups ==
  {DEFAULT_PROPERTY_GROUPS, {"colors"}, {"colors", "invalid-group-name"},
   {"positioning", "typography"}}

\* Rules at most this many are reported for the element itself.
MaxRules == 2

\* Declarations of a rule as the browser reports them: name -> value, a
\* value of <<>> being the empty string.
StyleMaps ==
  {[p \in {"color"} |-> <<"r", "e", "d">>],
   [p \in {"z-index", "color"} |-> IF p = "color" THEN Repeat("x", 101) ELSE <<"1">>],
   [p \in {"opacity"} |-> <<"1">>],
   [p \in {"display", "font-size"} |-> IF p = "display" THEN <<"f", "l", "e", "x">> ELSE <<>>]}

\* matchedCSSRules entries: rule.rule with its first selector's text, origin,
\* styleSheetId ("" when absent) and style (hasStyle FALSE when absent).
CdpRules ==
  {[text |-> <<"d", "i", "v">>, origin |-> "user-agent", styleSheetId |-> "",
    hasStyle |-> TRUE, cssProperties |-> m] : m \in {s \in StyleMaps : "display" \in DOMAIN s}}
    \cup {[text |-> <<"#", "a", ".", "b", ".", "c", " ", "d", "i", "v">>,
           origin |-> "regular", styleSheetId |-> "1", hasStyle |-> TRUE,
           cssProperties |-> m] : m \in StyleMaps}
    \cup {[text |-> <<>>, origin |-> "regular", styleSheetId |-> "",
           hasStyle |-> h, cssProperties |-> m] :
            h \in BOOLEAN, m \in {s \in StyleMaps : "color" \notin DOMAIN s}}

\* The property map built from cssProperties: a declaration with an empty
\* name or value is skipped.
PropertiesOf(cssProperties) ==
  [p \in {q \in DOMAIN cssProperties : q # "" /\ cssProperties[q] # <<>>} |->
     cssProperties[p]]

\* One pushed CascadeRule.  The source is a tuple: <<"user-agent">>,
\* <<"stylesheet", id>> or <<fallback>>.
ConvertRule(rule, fallback, fallbackSource) ==
  [selector |-> IF rule.text # <<>> THEN rule.text ELSE fallback,
   source |-> IF rule.origin = "user-agent" THEN <<"user-agent">>
              ELSE IF rule.styleSheetId # "" THEN <<"stylesheet", rule.styleSheetId>>
              ELSE <<fallbackSource>>,
   specificity |-> calculateSpecificity(rule.text),
   properties |-> PropertiesOf(rule.cssProperties)]

RECURSIVE ConvertRules(_, _, _)
ConvertRules(rules, fallback, fallbackSource) ==
  IF rules = <<>> THEN <<>>
  ELSE (IF Head(rules).hasStyle
        THEN <<ConvertRule(Head(rules), fallback, fallbackSource)>>
        ELSE <<>>)
         \o ConvertRules(Tail(rules), fallback, fallbackSource)

\* convertCascadeRules: the element's matched rules, then the inherited ones.
convertCascadeRules(cdpMatchedStyles) ==
  ConvertRules(cdpMatchedStyles.matchedCSSRules,
               <<"u", "n", "k", "n", "o", "w", "n">>, "inline")
    \o ConvertRules(cdpMatchedStyles.inherited,
                    <<"i", "n", "h", "e", "r", "i", "t", "e", "d">>, "inherited")

\* The properties of a rule that pass the group test, values truncated.
FilteredProperties(rule, requestedGroups, includeAll) ==
  [p \in {q \in DOMAIN rule.properties :
            shouldIncludeProperty(q, requestedGroups, includeAll)} |->
     truncateValue(p, rule.properties[p])]

\* A rule is pushed whether or not a property of it is left.
FilterRuleKeepingEmpty(rule, requestedGroups, includeAll) ==
  LET filteredProperties == FilteredProperties(rule, requestedGroups, includeAll)
  IN IF rule.source = <<"user-agent">> /\ ~includeAll THEN <<>>
     ELSE <<[rule EXCEPT !.properties = filteredProperties]>>

\* One turn of the loop of filterCascadeRules: what it pushes for a rule.
FilterRule(rule, requestedGroups, includeAll) ==
  LET filteredProperties == FilteredProperties(rule, requestedGroups, includeAll)
  IN IF rule.source = <<"user-agent">> /\ ~includeAll THEN <<>>
     ELSE IF DOMAIN filteredProperties # {}
     THEN <<[rule EXCEPT !.properties = filteredProperties]>>
     ELSE <<>>

\* filterCascadeRules
RECURSIVE filterCascadeRules(_, _, _)
filterCascadeRules(rules, requestedGroups, includeAll) ==
  IF includeAll \/ rules = <<>> THEN rules
  ELSE FilterRule(Head(rules), requestedGroups, includeAll)
         \o filterCascadeRules(Tail(rules), requestedGroups, includeAll)

\* Sequences of 0..n rules.
CdpRuleSeqs(n) == UNION {[1..k -> CdpRules] : k \in 0..n}

\* The rule functions are evaluated on replies drawn here.
RulesInit ==
  /\ pc = "calc"
  /\ calc \in [op : {"matched"},
                cdpMatchedStyles : [matchedCSSRules : CdpRuleSeqs(MaxRules),
                                    inherited : CdpRuleSeqs(1)],
                requestedGroups : RequestedGroups, includeAll : BOOLEAN,
                rules : {<<>>}, out : {<<>>}]
  /\ NoCall

\* filterCascadeRules(convertCascadeRules(matchedStylesResult), property_groups, includeAll)
CalcFilterRules ==
  /\ pc = "calc" /\ calc.op = "matched"
  /\ LET allCascadeRules == convertCascadeRules(calc.cdpMatchedStyles) IN
     calc' = [calc EXCEPT
                !.op = "filteredRules",
                !.rules = allCascadeRules,
                !.out = filterCascadeRules(allCascadeRules, calc.requestedGroups,
                                           calc.includeAll)]
  /\ CalcFrame

\* Computed styles of an element: name -> value.
ComputedStyles ==
  {[p \in {"display", "color", "font-family", "z-index", "opacity", "--x"} |->
      IF p = "font-family" THEN FontList(5, 30) ELSE <<"r", "e", "d">>],
   [p \in {"display", "width", "font-size"} |-> <<"1">>],
   [p \in {"z-index"} |-> <<"1">>]}

\* filterComputedStyles
filterComputedStyles(styles, requestedGroups, includeAll) ==
  IF includeAll THEN styles
  ELSE [p \in {q \in DOMAIN styles :
                 shouldIncludeProperty(q, requestedGroups, includeAll)} |->
          truncateValue(p, styles[p])]

\* categorizeProperties: every property under its one group; a group is
\* present when a property falls in it.
categorizeProperties(styles) ==
  [g \in {GroupOf(p) : p \in DOMAIN styles} |->
     [p \in {q \in DOMAIN styles : GroupOf(q) = g} |-> styles[p]]]

\* A requested name that is no group taken to match every property.
StylesOfResultLenient(styles, property_groups) ==
  LET lenient == IF property_groups \subseteq GroupNames THEN property_groups
                 ELSE GroupNames
      filteredComputedStyles == filterComputedStyles(styles, lenient, FALSE)
  IN [computed_styles |-> filteredComputedStyles,
      grouped_styles |-> categorizeProperties(filteredComputedStyles)]

\* computed_styles and grouped_styles of a result.
StylesOfResult(styles, property_groups) ==
  LET filteredComputedStyles == filterComputedStyles(styles, property_groups, FALSE)
  IN [computed_styles |-> filteredComputedStyles,
      grouped_styles |-> categorizeProperties(filteredComputedStyles)]

\* The style functions are evaluated on styles and groups drawn here.
StylesInit ==
  /\ pc = "calc"
  /\ calc \in [op : {"styles"}, styles : ComputedStyles,
                property_groups : RequestedGroups, out : {<<>>}]
  /\ NoCall

\* filterComputedStyles, then categorizeProperties
CalcStyles ==
  /\ pc = "calc" /\ calc.op = "styles"
  /\ calc' = [calc EXCEPT !.op = "grouped",
                          !.out = StylesOfResult(calc.styles, calc.property_groups)]
  /\ CalcFrame

\* ---------------------------------------------------------------------
\* The element cap.  The number of elements one call inspects is the number
\* of entries the marking script returns for the limit the call passes it.
\* ---------------------------------------------------------------------
MaxMatches == 25
\* the limit argument as the caller passes it: omitted, or a number
LimitArgs == {<<>>, <<0>>, <<1>>, <<10>>, <<20>>, <<25>>}

\* limit = 10 in the destructuring of the arguments: the default replaces
\* an omitted limit only, a limit that is given is used as it is
limitOrDefault(l) == IF l = <<>> THEN 10 ELSE l[1]

\* markElementsWithIds(css_selector, limit): the first `limit` matches are tagged
markedCount(matches, limit) == Min(matches, limit)

\* one relationship per unordered pair of inspected elements
pairCount(n) == (n * (n - 1)) \div 2

\* inspectElement as far as the number of elements goes: an empty marking
\* result is the error "Element not found"
inspectedElements(matches, l) ==
  LET n == markedCount(matches, limitOrDefault(l))
  IN [error |-> n = 0, elements |-> n,
      relationships |-> IF n > 1 THEN pairCount(n) ELSE 0]

NoCount == [error |-> FALSE, elements |-> 0, relationships |-> 0]

LimitInit ==
  /\ pc = "calc"
  /\ calc \in [op : {"limit"}, matches : 0..MaxMatches, limit : LimitArgs,
                out : {NoCount}]
  /\ NoCall

CalcInspected ==
  /\ pc = "calc" /\ calc.op = "limit"
  /\ calc' = [calc EXCEPT !.op = "inspected",
                          !.out = inspectedElements(calc.matches, calc.limit)]
  /\ CalcFrame

\* ---------------------------------------------------------------------
\* Two inspection calls on one tab.  The data-inspect-id attributes are
\* state of the page, the calls' scripts run one at a time in any order.
\* ---------------------------------------------------------------------
Calls == {"A", "B"}
TabNodes == 1..2
MaxClock == 2
NoAttr == <<>>

\* '_inspect_temp_' + Date.now() + '_' + i
TempId(now, i) == <<"_inspect_temp_", now, i>>

\* the page script of the multi path: an element that carries a
\* data-inspect-id keeps it, whoever wrote it; another gets a new value
UniqueIds(attr, now) ==
  [n \in TabNodes |-> IF attr[n] # NoAttr THEN attr[n] ELSE TempId(now, n - 1)]

\* BrowserScripts.markElementsWithIds: every matched element is tagged
MarkedIds(now) == [n \in TabNodes |-> TempId(now, n - 1)]

Range(f) == {f[x] : x \in DOMAIN f}

TabInit ==
  /\ pc = "calc"
  /\ calc = [op |-> "tab", clock |-> 0,
             attr |-> [n \in TabNodes |-> NoAttr],
             at |-> [c \in Calls |-> "start"],
             wrote |-> [c \in Calls |-> {}],
             uses |-> [c \in Calls |-> {}]]
  /\ NoCall

\* Date.now() moves on between two scripts, or does not
TabTick ==
  /\ pc = "calc" /\ calc.op = "tab" /\ calc.clock < MaxClock
  /\ calc' = [calc EXCEPT !.clock = @ + 1]
  /\ CalcFrame

\* inspectElement: Runtime.evaluate markElementsWithIds, then
\* DOM.querySelector by each returned id
TabMark ==
  /\ pc = "calc" /\ calc.op = "tab"
  /\ \E c \in Calls :
       /\ calc.at[c] = "start"
       /\ LET ids == MarkedIds(calc.clock)
          IN calc' = [calc EXCEPT !.attr = ids,
                                  !.at[c] = "marked",
                                  !.wrote[c] = @ \cup Range(ids),
                                  !.uses[c] = @ \cup Range(ids)]
  /\ CalcFrame

\* inspectMultipleElements: the unique ids for centering
TabUniqueIds ==
  /\ pc = "calc" /\ calc.op = "tab"
  /\ \E c \in Calls :
       /\ calc.at[c] = "marked"
       /\ LET ids == UniqueIds(calc.attr, calc.clock)
          IN calc' = [calc EXCEPT
                        !.attr = ids,
                        !.at[c] = "tagged",
                        !.wrote[c] = @ \cup {ids[n] : n \in {m \in TabNodes :
                                                       calc.attr[m] = NoAttr}},
                        !.uses[c] = @ \cup Range(ids)]
  /\ CalcFrame

\* finally { cleanupInspectIds }: every data-inspect-id of the page goes
TabCleanup ==
  /\ pc = "calc" /\ calc.op = "tab"
  /\ \E c \in Calls :
       /\ calc.at[c] \in {"marked", "tagged"}
       /\ calc' = [calc EXCEPT !.attr = [n \in TabNodes |-> NoAttr],
                               !.at[c] = "done"]
  /\ CalcFrame

\* the next call on the tab
TabAgain ==
  /\ pc = "calc" /\ calc.op = "tab"
  /\ \E c \in Calls :
       /\ calc.at[c] = "done"
       /\ calc' = [calc EXCEPT !.at[c] = "start"]
  /\ CalcFrame

\* ---------------------------------------------------------------------
\* The drawing operations, pixel by pixel.  Coordinates are in 1/SubPx
\* pixel: a rectangle need not lie on whole pixels, and a loop that starts
\* at a fractional coordinate steps by one pixel from there.  Each operator
\* is the set of coordinates the operation passes to setPixelColor.
\* ---------------------------------------------------------------------
PixelImage == [width |-> 3, height |-> 2]
PixelCoords == {-9, -4, -2, 0, 1, 4, 6, 11, 12, 13}
PixelSizes == {0, 1, 4, 8, 10, 24}
PixelRects == [x : PixelCoords, y : PixelCoords, width : PixelSizes, height : PixelSizes]

\* for (let p = from; p < below; p++)
PixelSteps(from, below) == {p \in from..(below - 1) : (p - from) % SubPx = 0}

\* The outline with no test of the row or column an edge lies on.
drawRectangleOutlineUnchecked(image, rect, thickness) ==
  LET imgWidth == image.width * SubPx
      imgHeight == image.height * SubPx
      x == rect.x
      y == rect.y
      width == rect.width
      height == rect.height
      T == {t * SubPx : t \in 0..(thickness - 1)}
  IN IF x >= imgWidth \/ y >= imgHeight \/ x + width <= 0 \/ y + height <= 0
     THEN {}
     ELSE
       {<<px, y + t>> : px \in PixelSteps(Max(0, x), Min(imgWidth, x + width)), t \in T}
       \cup
       {<<px, y + height - SubPx - t>> :
           px \in PixelSteps(Max(0, x), Min(imgWidth, x + width)), t \in T}
       \cup
       {<<x + t, py>> : py \in PixelSteps(Max(0, y), Min(imgHeight, y + height)), t \in T}
       \cup
       {<<x + width - SubPx - t, py>> :
           py \in PixelSteps(Max(0, y), Min(imgHeight, y + height)), t \in T}

\* drawRectangleOutline
drawRectangleOutline(image, rect, thickness) ==
  LET imgWidth == image.width * SubPx
      imgHeight == image.height * SubPx
      x == rect.x
      y == rect.y
      width == rect.width
      height == rect.height
      T == {t * SubPx : t \in 0..(thickness - 1)}
      Cols == PixelSteps(Max(0, x), Min(imgWidth, x + width))
      Rows == PixelSteps(Max(0, y), Min(imgHeight, y + height))
  IN IF x >= imgWidth \/ y >= imgHeight \/ x + width <= 0 \/ y + height <= 0
     THEN {}
     ELSE
       \* top and bottom edges
       {<<px, y + t>> : px \in Cols, t \in {u \in T : y + u >= 0 /\ y + u < imgHeight}}
       \cup
       {<<px, y + height - SubPx - t>> :
           px \in Cols, t \in {u \in T : /\ y + height - SubPx - u >= 0
                                         /\ y + height - SubPx - u < imgHeight}}
       \cup
       \* left and right edges
       {<<x + t, py>> : py \in Rows, t \in {u \in T : x + u >= 0 /\ x + u < imgWidth}}
       \cup
       {<<x + width - SubPx - t, py>> :
           py \in Rows, t \in {u \in T : /\ x + width - SubPx - u >= 0
                                         /\ x + width - SubPx - u < imgWidth}}

\* drawRectangleFilled
drawRectangleFilled(image, rect) ==
  LET imgWidth == image.width * SubPx
      imgHeight == image.height * SubPx
  IN {<<px, py>> :
        px \in PixelSteps(Max(0, rect.x), Min(imgWidth, rect.x + rect.width)),
        py \in PixelSteps(Max(0, rect.y), Min(imgHeight, rect.y + rect.height))}

\* drawRulers; Math.floor(x + width / 2) is a whole pixel
drawRulers(image, elementRect) ==
  LET imgWidth == image.width * SubPx
      imgHeight == image.height * SubPx
      centerX == ((2 * elementRect.x + elementRect.width) \div (2 * SubPx)) * SubPx
      centerY == ((2 * elementRect.y + elementRect.height) \div (2 * SubPx)) * SubPx
  IN (IF centerX >= 0 /\ centerX < imgWidth
      THEN {<<centerX, y>> : y \in PixelSteps(0, imgHeight)} ELSE {})
     \cup
     (IF centerY >= 0 /\ centerY < imgHeight
      THEN {<<x, centerY>> : x \in PixelSteps(0, imgWidth)} ELSE {})

NoPixels == [thin |-> {}, thick |-> {}, filled |-> {}, rulers |-> {}]

PixelInit ==
  /\ pc = "calc"
  /\ calc \in [op : {"rect"}, rect : PixelRects, out : {NoPixels}]
  /\ NoCall

\* the drawing operations of drawHighlightOnScreenshot on one rectangle
CalcPixels ==
  /\ pc = "calc" /\ calc.op = "rect"
  /\ calc' = [calc EXCEPT
                !.op = "pixels",
                !.out = [thin |-> drawRectangleOutline(PixelImage, calc.rect, 1),
                         thick |-> drawRectangleOutline(PixelImage, calc.rect, 2),
                         filled |-> drawRectangleFilled(PixelImage, calc.rect),
                         rulers |-> drawRulers(PixelImage, calc.rect)]]
  /\ CalcFrame

\* ---------------------------------------------------------------------
\* The clip of the capture.  Margin boxes are in 1/SubPx pixel, the
\* viewport and the clip in whole pixels, the zoom factor in hundredths.
\* ---------------------------------------------------------------------
CLIP_PADDING == 100
FloorToPx(q) == q \div SubPx
CeilPx(q) == -((-q) \div SubPx)

ClipFactors == {50, 100, 150, 300}
ClipOrigins == {-500, -401, 3, 402, 1198, 1700}
ClipExtents == {0, 2, 401, 2000}
ClipMargins == [x : ClipOrigins, y : ClipOrigins, width : ClipExtents, height : ClipExtents]
\* the margin boxes of the further elements of a multi-element call
ClipOthers ==
  {[x |-> 3, y |-> 3, width |-> 2, height |-> 2],
   [x |-> 1198, y |-> -401, width |-> 401, height |-> 2000],
   [x |-> 1700, y |-> 1700, width |-> 0, height |-> 0]}
NoClip == <<>>

\* The clip set without the test of its values.
ClipAroundUnvalidated(left, top, width, height, viewportInfo) ==
  LET x == Max(0, FloorToPx(left - CLIP_PADDING * SubPx))
      y == Max(0, FloorToPx(top - CLIP_PADDING * SubPx))
      w == Max(1, Min(viewportInfo.width - x, CeilPx(width + 2 * CLIP_PADDING * SubPx)))
      h == Max(1, Min(viewportInfo.height - y, CeilPx(height + 2 * CLIP_PADDING * SubPx)))
  IN <<[x |-> x, y |-> y, width |-> w, height |-> h]>>

\* const padding = 100; x, y, width, height; "Only apply clip if values
\* are valid"
ClipAround(left, top, width, height, viewportInfo) ==
  LET x == Max(0, FloorToPx(left - CLIP_PADDING * SubPx))
      y == Max(0, FloorToPx(top - CLIP_PADDING * SubPx))
      w == Max(1, Min(viewportInfo.width - x, CeilPx(width + 2 * CLIP_PADDING * SubPx)))
      h == Max(1, Min(viewportInfo.height - y, CeilPx(height + 2 * CLIP_PADDING * SubPx)))
  IN IF /\ x >= 0 /\ y >= 0 /\ w > 0 /\ h > 0
        /\ x + w <= viewportInfo.width /\ y + h <= viewportInfo.height
     THEN <<[x |-> x, y |-> y, width |-> w, height |-> h]>>
     ELSE NoClip

\* screenshotOptions.clip of the single path
singleClip(appliedFactor, margin, viewportInfo) ==
  IF appliedFactor > 100
  THEN ClipAround(margin.x, margin.y, margin.width, margin.height, viewportInfo)
  ELSE NoClip

\* screenshotOptions.clip of the multi path: around the bounding box of
\* all margin boxes
multiClip(appliedFactor, margins, viewportInfo) ==
  IF appliedFactor > 100 /\ Len(margins) > 0
  THEN LET I == 1..Len(margins)
           minX == CHOOSE v \in {margins[i].x : i \in I} :
                     \A i \in I : v <= margins[i].x
           minY == CHOOSE v \in {margins[i].y : i \in I} :
                     \A i \in I : v <= margins[i].y
           maxX == CHOOSE v \in {margins[i].x + margins[i].width : i \in I} :
                     \A i \in I : v >= margins[i].x + margins[i].width
           maxY == CHOOSE v \in {margins[i].y + margins[i].height : i \in I} :
                     \A i \in I : v >= margins[i].y + margins[i].height
       IN ClipAround(minX, minY, maxX - minX, maxY - minY, viewportInfo)
  ELSE NoClip

ClipInit ==
  /\ pc = "calc"
  /\ \E m \in ClipMargins :
       calc \in [op : {"shot"}, factor : ClipFactors,
                 margins : {<<m>>} \cup {<<m, o>> : o \in ClipOthers},
                 out : {NoClip}]
  /\ NoCall

CalcSingleClip ==
  /\ pc = "calc" /\ calc.op = "shot" /\ Len(calc.margins) = 1
  /\ calc' = [calc EXCEPT !.op = "singleClip",
                          !.out = singleClip(calc.factor, calc.margins[1], ShotViewport)]
  /\ CalcFrame

CalcMultiClip ==
  /\ pc = "calc" /\ calc.op = "shot" /\ Len(calc.margins) > 1
  /\ calc' = [calc EXCEPT !.op = "multiClip",
                          !.out = multiClip(calc.factor, calc.margins, ShotViewport)]
  /\ CalcFrame

\* ---------------------------------------------------------------------
\* The statistics of a result.
\* ---------------------------------------------------------------------
\* What the browser answers for one element: its computed styles and its
\* matched rules.
ElementReplies ==
  [styles : ComputedStyles,
   cdpMatchedStyles : [matchedCSSRules : CdpRuleSeqs(1), inherited : {<<>>}]]
ElementReplySeqs ==
  {<<e>> : e \in ElementReplies}
    \cup {<<e, f>> : e \in ElementReplies,
                     f \in {g \in ElementReplies : g.styles = CHOOSE s \in ComputedStyles :
                                                                 Cardinality(DOMAIN s) = 3}}

StatNames == {"total_properties", "filtered_properties", "total_rules", "filtered_rules"}
NoStats == [k \in StatNames |-> 0]

\* the four counts of one element
elementStats(e, property_groups) ==
  LET allComputedStyles == e.styles
      filteredComputedStyles == filterComputedStyles(allComputedStyles, property_groups, FALSE)
      allCascadeRules == convertCascadeRules(e.cdpMatchedStyles)
      filteredCascadeRules == filterCascadeRules(allCascadeRules, property_groups, FALSE)
  IN [total_properties |-> Cardinality(DOMAIN allComputedStyles),
      filtered_properties |-> Cardinality(DOMAIN filteredComputedStyles),
      total_rules |-> Len(allCascadeRules),
      filtered_rules |-> Len(filteredCascadeRules)]

\* totalProperties += ... in the loop of the second pass
RECURSIVE accumulateStats(_, _, _)
accumulateStats(elements, property_groups, acc) ==
  IF elements = <<>> THEN acc
  ELSE LET s == elementStats(Head(elements), property_groups)
       IN accumulateStats(Tail(elements), property_groups,
                          [k \in StatNames |-> acc[k] + s[k]])

\* The counters assigned in the loop, not added up.
multiStatsOfLast(elements, property_groups) ==
  elementStats(elements[Len(elements)], property_groups)

\* stats of a multi-element result
multiStats(elements, property_groups) ==
  accumulateStats(elements, property_groups, NoStats)

StatsInit ==
  /\ pc = "calc"
  /\ calc \in [op : {"replies"}, elements : ElementReplySeqs,
                property_groups : RequestedGroups, out : {NoStats}]
  /\ NoCall

\* stats of the single path
CalcSingleStats ==
  /\ pc = "calc" /\ calc.op = "replies" /\ Len(calc.elements) = 1
  /\ calc' = [calc EXCEPT !.op = "singleStats",
                          !.out = elementStats(calc.elements[1], calc.property_groups)]
  /\ CalcFrame

\* stats of the multi path
CalcMultiStats ==
  /\ pc = "calc" /\ calc.op = "replies" /\ Len(calc.elements) > 1
  /\ calc' = [calc EXCEPT !.op = "multiStats",
                          !.out = multiStats(calc.elements, calc.property_groups)]
  /\ CalcFrame

Next ==
  \/ Connect
  \/ EnableDomain
  \/ GetDocument
  \/ RetryWait
  \/ MarkElements
  \/ QuerySelector
  \/ Dispatch
  \/ S_ApplyEdits
  \/ S_FindOrCreateUniqueId
  \/ S_MeasureInitial
  \/ S_GetViewportInfo
  \/ S_Center
  \/ S_CenterSettle
  \/ S_Zoom
  \/ S_ZoomSettle
  \/ S_MeasureFinal
  \/ S_ComputedStyle
  \/ S_MatchedStyles
  \/ S_Highlight
  \/ S_Capture
  \/ S_Annotate
  \/ S_HideHighlight
  \/ S_Return
  \/ S_ResetViewportScale
  \/ S_CleanupTempId
  \/ M_GetViewportInfo
  \/ M_ApplyEdits
  \/ M_MeasureInitial
  \/ M_UniqueIds
  \/ M_Center
  \/ M_CenterSettle
  \/ M_Zoom
  \/ M_ZoomSettle
  \/ M_MeasureFinal
  \/ M_ComputedStyle
  \/ M_MatchedStyles
  \/ M_Highlight
  \/ M_HighlightWait
  \/ M_Capture
  \/ M_Annotate
  \/ M_HideHighlight
  \/ M_Return
  \/ M_ResetViewportScale
  \/ M_CleanupInspectIds
  \/ L_QuerySelector
  \/ L_GetBoxModel
  \/ L_ComputedStyle
  \/ L_MatchedStyles
  \/ L_Highlight
  \/ L_Capture
  \/ L_HideHighlight
  \/ L_Return
  \/ CleanupInspectIds
  \/ Close
  \/ CalcSingleZoom
  \/ CalcMultiZoom
  \/ CalcShouldCenter
  \/ CalcRelationships
  \/ CalcPair
  \/ CalcBoxModel
  \/ CalcDrawSingle
  \/ CalcDrawMultiple
  \/ CalcSpecificity
  \/ CalcTruncate
  \/ CalcFilterRules
  \/ CalcStyles
  \/ CalcInspected
  \/ TabTick
  \/ TabMark
  \/ TabUniqueIds
  \/ TabCleanup
  \/ TabAgain
  \/ CalcPixels
  \/ CalcSingleClip
  \/ CalcMultiClip
  \/ CalcSingleStats
  \/ CalcMultiStats

\* One call of inspectElement, or one evaluation of a geometry function.
Init == CallInit \/ CalcInit \/ MetricsInit \/ DrawInit \/ SelectorInit
          \/ ValueInit \/ RulesInit \/ StylesInit \/ LimitInit \/ TabInit \/ PixelInit \/ ClipInit \/ StatsInit

Spec == Init /\ [][Next]_vars

\* ------------------------------------------------------------- properties
Idx == 1..Len(trace)
Done == pc = "done"
IsReq(e, m) == e.k = "send" /\ e.m = m
ScaleReq == "Emulation.setPageScaleFactor"
CleanupReq == "Runtime.evaluate:cleanupInspectIds"
MarkReq == "Runtime.evaluate:markElementsWithIds"
NoMarkers == \A n \in Nodes : marker[n] = "none"
PathRequests == {"DOM.setInlineStyles", "Runtime.evaluate:findOrCreateUniqueId",
                 "Runtime.evaluate:getElementMetrics", "Page.getLayoutMetrics",
                 "DOM.getBoxModel", "Runtime.evaluate:uniqueIds",
                 "Runtime.evaluate:centerElement",
                 "Runtime.evaluate:centerMultipleElements", ScaleReq,
                 "CSS.getComputedStyleForNode", "CSS.getMatchedStylesForNode",
                 "Overlay.hideHighlight", "Page.captureScreenshot"}
\* Neither inspectSingleElement nor inspectMultipleElements was entered.
NoPathEntered ==
  /\ pc \in {"o_cleanup", "o_close", "done"}
  /\ params = NoParams
  /\ boxModels = <<>>
  /\ \A i \in Idx : ~(trace[i].k = "send" /\ trace[i].m \in PathRequests)

\* C1 (as stated): a call that starts at page scale factor 1 returns with
\* page scale factor 1, on a result or an error, whichever step failed.
C1_ZoomAlwaysRestored == (Done /\ start.scale = 100) => scale = 100

\* C1 (amended): a call that starts at page scale factor 1 and sends a scale
\* change sends a reset to 1 afterwards, before it returns a result or an
\* error; the page scale factor is 1 on return unless that reset request
\* itself was rejected.
C1_ZoomResetAttempted ==
  (Done /\ start.scale = 100) =>
    /\ \A i \in Idx : (IsReq(trace[i], ScaleReq) /\ trace[i].n # 100) =>
         \E j \in Idx : j > i /\ IsReq(trace[j], ScaleReq) /\ trace[j].n = 100
    /\ \/ scale = 100
       \/ \E j \in Idx : trace[j] = Req(ScaleReq, 100, "rejected")

\* A zoom was applied, a later main step failed, and the scale is 1 on return.
C1_Witness ==
  /\ Done /\ start.scale = 100 /\ scale = 100
  /\ mainOutcome \in Errors
  /\ \E i \in Idx : IsReq(trace[i], ScaleReq) /\ trace[i].n # 100 /\ trace[i].r = "ok"

\* C2 (as stated): no temporary marker attribute remains on any node when
\* the call returns, on a result or an error, whichever step failed.
C2_NoMarkerRemains == Done => NoMarkers

\* C2 (amended): once the connection is open, the last request before the
\* close is a removal of all marker attributes, on a result or an error; no
\* marker remains on return unless that final removal request was rejected.
C2_MarkersRemovedUnlessCleanupFails ==
  /\ (Done /\ ~args.legacy /\ closed > 0) =>
       /\ Len(trace) >= 2
       /\ IsReq(trace[Len(trace) - 1], CleanupReq)
       /\ trace[Len(trace)].k = "close"
       /\ (NoMarkers \/ trace[Len(trace) - 1].r = "rejected")
  /\ (Done /\ (args.legacy \/ closed = 0)) => NoMarkers

\* Markers were written, the call failed, and none is left.
C2_Witness ==
  /\ Done /\ mainOutcome \in Errors /\ NoMarkers
  /\ \E i \in Idx : trace[i] = Req(MarkReq, 0, "list")
  /\ \E i \in Idx : trace[i] = Req("Runtime.evaluate:uniqueIds", 0, "ids")

\* C3: for every call with css_edits, on every exit path each edited
\* element's inline style is what it was before the call.
C3_EditsUndone == Done => \A n \in Nodes : style[n] = "orig"

\* C4: if the call scrolled the page to center the element or the group, the
\* scroll position on return is the one at call start.
C4_ScrollRestored == (Done /\ centered) => scroll = start.scroll

\* C5: a rejected cleanup request never changes the outcome: the caller
\* receives the result or the error the main steps ended with.
C5_CleanupNeverMasks == Done => outcome = mainOutcome

\* The main steps produced a result, the zoom reset and the final marker
\* removal were both rejected, and the caller received the result.
C5_Witness ==
  /\ Done /\ outcome \in Results
  /\ \E j \in Idx : trace[j] = Req(ScaleReq, 100, "rejected")
  /\ \E j \in Idx : trace[j] = Req(CleanupReq, 0, "rejected")

\* C6: once the connection is open it is closed exactly once on every exit
\* path, and no request is sent after the close.
C6_ClosedExactlyOnce ==
  /\ closed <= 1
  /\ (Done /\ Len(trace) > 0) => closed = 1
  /\ closed = Cardinality({i \in Idx : trace[i].k = "close"})
  /\ \A i \in Idx : trace[i].k = "close" =>
       \A j \in (i + 1)..Len(trace) : trace[j].k # "send"

\* The connection was opened, a step failed, and the connection is closed.
C6_Witness == Done /\ closed = 1 /\ mainOutcome \in Errors

\* C7: DOM.getDocument is sent at most 3 times and not again after a valid
\* root; the call fails with DocumentUnavailable exactly when 3 attempts
\* failed; the k-th failed attempt (k = 1, 2) is followed by a wait of
\* 500 * k ms and the third by no wait.
C7_DocumentRetry ==
  LET docs == {i \in Idx : IsReq(trace[i], "DOM.getDocument")}
      failed == {i \in docs : trace[i].r = "failed"}
      retryWaits == {i \in Idx : trace[i].k = "wait" /\ trace[i].n \notin {100, 200}}
  IN /\ Cardinality(docs) <= 3
     /\ \A i \in docs : trace[i].r = "root" => \A j \in docs : j <= i
     /\ (mainOutcome = "DocumentUnavailable") <=> (Cardinality(failed) = 3)
     /\ Done => ((outcome = "DocumentUnavailable") <=> (Cardinality(failed) = 3))
     /\ \A i \in failed :
          LET k == Cardinality({j \in failed : j <= i})
          IN i < Len(trace) =>
               IF k < 3 THEN trace[i + 1] = Wait(500 * k)
               ELSE trace[i + 1].k # "wait"
     /\ \A i \in retryWaits : i > 1 /\ (i - 1) \in failed
     /\ \A i \in retryWaits : i < Len(trace) => (i + 1) \in docs

\* Two attempts failed, the third gave the root, and the call returned a result.
C7_Witness ==
  /\ Done /\ outcome \in Results
  /\ Cardinality({i \in Idx : trace[i] = Req("DOM.getDocument", 0, "failed")}) = 2
  /\ \E i \in Idx : trace[i] = Req("DOM.getDocument", 0, "root")

\* C8: when the marking script raises, the call fails with InvalidSelector;
\* when it reports no match, or no node handle is acquired for any tagged
\* element, the call fails with ElementNotFound; in each case no result is
\* returned and neither the single nor the multi path is entered.
C8_SelectorFailures ==
  /\ \A i \in Idx : IsReq(trace[i], MarkReq) =>
       /\ trace[i].r = "exception" =>
            mainOutcome = "InvalidSelector" /\ NoPathEntered
       /\ trace[i].r = "error" =>
            mainOutcome = "ElementNotFound" /\ NoPathEntered
       /\ ( /\ trace[i].r = "list"
            /\ pc # "query"
            /\ \A j \in Idx : IsReq(trace[j], "DOM.querySelector") => trace[j].r = "none" )
          => mainOutcome = "ElementNotFound" /\ NoPathEntered
  /\ (Done /\ mainOutcome \in {"InvalidSelector", "ElementNotFound"})
       => outcome = mainOutcome

\* The browser rejected the selector and the caller got InvalidSelector.
C8_Witness ==
  /\ Done /\ outcome = "InvalidSelector"
  /\ \E i \in Idx : trace[i] = Req(MarkReq, 0, "exception")

\* Position in the trace of the first-pass measurements.
FirstPass(i) ==
  /\ \A j \in Idx : (j < i /\ trace[j].k = "send") =>
       trace[j].m \notin {"Runtime.evaluate:getElementMetrics",
                          "Runtime.evaluate:uniqueIds"}

CenterReqs == {"Runtime.evaluate:centerElement",
               "Runtime.evaluate:centerMultipleElements"}

\* C10: in a call that centers and zooms, the centering request and its
\* 100 ms settle wait come before the zoom factor is computed and before any
\* scale change is sent.
C10_CenterBeforeZoom ==
  \A i \in Idx : (trace[i].k = "send" /\ trace[i].m \in CenterReqs) =>
    \A j \in Idx :
      (trace[j] = Local("computeZoom") \/ IsReq(trace[j], ScaleReq)) =>
        /\ trace[i].r = "ok"
        /\ i + 1 < j
        /\ trace[i + 1] = Wait(100)

\* The call centered, then zoomed.
C10_Witness ==
  /\ Done
  /\ \E i \in Idx : trace[i].k = "send" /\ trace[i].m \in CenterReqs /\ trace[i].r = "ok"
  /\ \E j \in Idx : IsReq(trace[j], ScaleReq) /\ trace[j].n # 100 /\ trace[j].r = "ok"

MetricsReq == "Runtime.evaluate:getElementMetrics"

\* The step of the single path an event of the trace belongs to: 0 the head
\* of inspectElement, 1 edits, 2 initial measurement (with the lookup of the
\* element and of the viewport), 3 centering, 4 zoom, 5 final measurement,
\* 6 computed style, 7 cascade, 8 capture and annotation, 9 result assembly,
\* 10 viewport restoration, 11 marker removal, 12 close.
SingleStep(i) ==
  LET e == trace[i] IN
  CASE e.k = "close" -> 12
    [] e.k = "wait" -> IF e.n = CenterSettle THEN 3
                       ELSE IF e.n = ZoomSettle THEN 4 ELSE 0
    [] e.k = "local" ->
         (CASE e.m = "connect" -> 0
            [] e.m = "computeZoom" -> 4
            [] e.m \in {"annotate", "annotateFailed"} -> 8
            [] e.m = "assemble" -> 9
            [] OTHER -> 13)
    [] OTHER ->
         (CASE e.m = "DOM.setInlineStyles" -> 1
            [] e.m \in {"Runtime.evaluate:findOrCreateUniqueId", "Page.getLayoutMetrics"} -> 2
            [] e.m = MetricsReq ->
                 IF \E j \in 1..(i - 1) : IsReq(trace[j], MetricsReq) THEN 5 ELSE 2
            [] e.m = "Runtime.evaluate:centerElement" -> 3
            [] e.m = ScaleReq -> IF e.n = 100 THEN 10 ELSE 4
            [] e.m = "CSS.getComputedStyleForNode" -> 6
            [] e.m = "CSS.getMatchedStylesForNode" -> 7
            [] e.m \in {"Overlay.hideHighlight", "Page.captureScreenshot"} -> 8
            [] e.m \in {"Runtime.evaluate:cleanupTempId", CleanupReq} -> 11
            [] e.m \in {"DOM.enable", "CSS.enable", "Page.enable", "Overlay.enable",
                        "DOM.getDocument", MarkReq, "DOM.querySelector"} -> 0
            [] OTHER -> 13)

Count(m) == Cardinality({i \in Idx : IsReq(trace[i], m)})

\* C11: in every successful single-element call the steps occur in the
\* order edits (if any), initial measurement, centering (if any), zoom (if
\* any), final measurement, computed-style read, cascade read, capture and
\* annotation, result assembly, viewport restoration, marker removal, each
\* step of the list occurring once and no step starting before the previous
\* one has ended.
C11_SingleStepOrder ==
  (Done /\ ~args.legacy /\ mainOutcome = "Single") =>
    /\ \A i \in Idx : SingleStep(i) <= 12
    /\ \A i \in 1..(Len(trace) - 1) : SingleStep(i) <= SingleStep(i + 1)
    /\ Count("DOM.setInlineStyles") = (IF args.edits = "none" THEN 0 ELSE 1)
    /\ Count(MetricsReq) = 2
    /\ Count("Runtime.evaluate:centerElement") <= 1
    /\ Cardinality({i \in Idx : IsReq(trace[i], ScaleReq) /\ trace[i].n # 100}) <= 1
    /\ Count("CSS.getComputedStyleForNode") = 1
    /\ Count("CSS.getMatchedStylesForNode") = 1
    /\ Count("Page.captureScreenshot") = 1
    /\ Cardinality({i \in Idx : trace[i] \in {Local("annotate"), Local("annotateFailed")}}) = 1
    /\ Cardinality({i \in Idx : trace[i] = Local("assemble")}) = 1
    /\ Cardinality({i \in Idx : IsReq(trace[i], ScaleReq) /\ trace[i].n = 100})
         = Cardinality({i \in Idx : IsReq(trace[i], ScaleReq) /\ trace[i].n # 100})
    /\ Count(CleanupReq) = 1

\* A successful single-element call that edited, centered, zoomed, reset the
\* zoom and removed a temporary marker.
C11_Witness ==
  /\ Done /\ ~args.legacy /\ outcome = "Single"
  /\ \E i \in Idx : trace[i] = Req("DOM.setInlineStyles", 0, "ok")
  /\ \E i \in Idx : trace[i] = Req("Runtime.evaluate:centerElement", 0, "ok")
  /\ \E i \in Idx : IsReq(trace[i], ScaleReq) /\ trace[i].n # 100 /\ trace[i].r = "ok"
  /\ \E i \in Idx : trace[i] = Req(ScaleReq, 100, "ok")
  /\ \E i \in Idx : trace[i] = Req("Runtime.evaluate:cleanupTempId", 0, "ok")

\* The call scrolled or scaled the page.
Adjusted ==
  \E i \in Idx :
    /\ trace[i].k = "send" /\ trace[i].r = "ok"
    /\ trace[i].m \in CenterReqs \/ (trace[i].m = ScaleReq /\ trace[i].n # 100)

\* C12: when the call centered or zoomed, the box model returned in a
\* result, and the one drawn on the screenshot, was measured after those
\* adjustments: a measurement taken before them is never returned or drawn.
C12_BoxModelAfterAdjustments ==
  (mainOutcome \in Results /\ ~args.legacy /\ Adjusted) =>
    \A i \in 1..Len(boxModels) : boxModels[i] = "updated"

\* The zoom block of the single or the multi path has run.
ZoomBlockRan == \E i \in Idx : trace[i] = Local("computeZoom")

\* C13: for every numeric zoomFactor the caller supplies, whatever autoZoom
\* is, the factor the call applies and reports is that value clamped to
\* [0.5, 3.0].
C13_SuppliedZoomClamped ==
  (ZoomBlockRan /\ params.given.zoomGiven) =>
    appliedZoomFactor =
      (IF params.given.zoomFactor < 50 THEN 50
       ELSE IF params.given.zoomFactor > 300 THEN 300
       ELSE params.given.zoomFactor)

\* C14: every page scale factor a call sends, computed for one element,
\* computed for a group or supplied by the caller, lies in [0.5, 3.0]; so
\* does the factor of the zoom block for elements of zero area and for
\* elements larger than the viewport.
C14_ScaleFactorInRange ==
  /\ \A i \in Idx : IsReq(trace[i], ScaleReq) =>
       (MIN_ZOOM_FACTOR <= trace[i].n /\ trace[i].n <= MAX_ZOOM_FACTOR)
  /\ calc.op \in {"singleZoom", "multiZoom"} =>
       (MIN_ZOOM_FACTOR <= calc.factor /\ calc.factor <= MAX_ZOOM_FACTOR)

\* The factor computed for a group holding an element of zero area and an
\* element larger than the viewport: the lower end of the range.
C14_Witness ==
  /\ calc.op = "multiZoom"
  /\ calc.a.autoZoom /\ calc.a.zoomFactor = 0
  /\ \E i \in 1..Len(calc.boxes) : calc.boxes[i].width * calc.boxes[i].height = 0
  /\ \E i \in 1..Len(calc.boxes) :
       calc.boxes[i].width > Viewport.width /\ calc.boxes[i].height > Viewport.height
  /\ calc.factor = MIN_ZOOM_FACTOR

\* The single path was entered.
SinglePath == \E i \in Idx : IsReq(trace[i], "Runtime.evaluate:findOrCreateUniqueId")

\* Coverage (element area over viewport area) lies in [0.1, 0.8].
CoverageInBand(box) ==
  /\ 10 * box.width * box.height >= Viewport.width * Viewport.height
  /\ 10 * box.width * box.height <= 8 * Viewport.width * Viewport.height

\* C15: the automatically computed single-element zoom factor is exactly 1
\* whenever coverage lies in [0.1, 0.8], and such a call sends no scale
\* change and no scale reset.
C15_NoZoomInBand ==
  /\ ( /\ calc.op = "singleZoom"
       /\ calc.a.autoZoom /\ calc.a.zoomFactor = 0
       /\ CoverageInBand(calc.boxes[1]) )
     => calc.factor = 100
  /\ ( /\ SinglePath /\ ZoomBlockRan
       /\ params.autoZoom /\ params.zoomFactor = 0
       /\ CoverageInBand(ElemRect(FirstMatch(args))) )
     => /\ appliedZoomFactor = 100
        /\ \A i \in Idx : ~IsReq(trace[i], ScaleReq)

\* A successful automatic-zoom call on an element whose coverage is exactly
\* 0.1: no scale request was sent.
C15_Witness ==
  /\ Done /\ outcome = "Single" /\ SinglePath
  /\ params.autoZoom /\ params.zoomFactor = 0
  /\ 10 * ElemRect(FirstMatch(args)).width * ElemRect(FirstMatch(args)).height
       = Viewport.width * Viewport.height
  /\ \A i \in Idx : ~IsReq(trace[i], ScaleReq)

\* A flag that is true or omitted.
CenterOn == params.given.autoCenter \in {"omitted", "true"}
ZoomOn == params.given.autoZoom \in {"omitted", "true"}
CenterSent == \E i \in Idx : trace[i].k = "send" /\ trace[i].m \in CenterReqs
ScaleChangeSent == \E i \in Idx : IsReq(trace[i], ScaleReq) /\ trace[i].n # 100

\* C16: centering and zooming are switched independently and default to
\* enabled: with autoCenter=false no centering scroll is sent; with
\* autoZoom=false and no zoomFactor no scale request is sent and the reported
\* factor is 1; an omitted flag acts as true, whatever the other flag is.
C16_FlagsIndependentDefaultOn ==
  /\ params.given.autoCenter = "false" => ~CenterSent
  /\ (params.given.autoZoom = "false" /\ params.zoomFactor = 0) =>
       /\ appliedZoomFactor = 100
       /\ \A i \in Idx : ~IsReq(trace[i], ScaleReq)
  /\ ZoomBlockRan =>
       /\ CenterSent <=>
            /\ CenterOn
            /\ SinglePath => shouldCenterElement(ElemRect(FirstMatch(args)), Viewport)
            /\ ~SinglePath => uniqueId = "ids"
       /\ (ZoomOn /\ params.zoomFactor = 0) =>
            appliedZoomFactor =
              (IF SinglePath
               THEN calculateOptimalZoom(ElemRect(FirstMatch(args)), Viewport)
               ELSE calculateMultiElementZoom(elementPositions(nodeIds), Viewport))
       /\ ScaleChangeSent <=> appliedZoomFactor # 100

\* autoCenter=false with autoZoom omitted on an off-centre small element:
\* the call zoomed and did not scroll.
C16_Witness ==
  /\ Done /\ outcome = "Single" /\ SinglePath
  /\ params.given.autoCenter = "false" /\ params.given.autoZoom = "omitted"
  /\ ~params.given.zoomGiven
  /\ shouldCenterElement(ElemRect(FirstMatch(args)), Viewport)
  /\ ~CenterSent
  /\ \E i \in Idx : trace[i] = Req(ScaleReq, MAX_ZOOM_FACTOR, "ok")

\* The center of the box is more than 30% of the viewport width away from
\* the viewport's center on X, or more than 30% of its height on Y.
Deviates(box) ==
  \/ 10 * Abs(2 * box.x + box.width - Viewport.width) > 6 * Viewport.width
  \/ 10 * Abs(2 * box.y + box.height - Viewport.height) > 6 * Viewport.height

\* C17: on the single path a centering scroll is sent exactly when
\* autoCenter is enabled and the element's center deviates from the
\* viewport's center by more than 30% of the viewport width on X or of the
\* viewport height on Y; an element within both thresholds is never scrolled.
C17_CenterExactlyWhenOff ==
  /\ calc.op = "shouldCenter" => (calc.center <=> Deviates(calc.boxes[1]))
  /\ SinglePath =>
       /\ CenterSent => (params.autoCenter /\ Deviates(ElemRect(FirstMatch(args))))
       /\ ZoomBlockRan =>
            (CenterSent <=> (params.autoCenter /\ Deviates(ElemRect(FirstMatch(args)))))

\* A successful call with autoCenter enabled on an element exactly 30% of
\* the viewport width off center: no scroll was sent.
C17_Witness ==
  /\ Done /\ outcome = "Single" /\ SinglePath
  /\ params.autoCenter
  /\ 10 * Abs(2 * ElemRect(FirstMatch(args)).x + ElemRect(FirstMatch(args)).width
                - Viewport.width) = 6 * Viewport.width
  /\ ~CenterSent

\* inspectMultipleElements was entered.
MultiPath == ~args.legacy /\ params # NoParams /\ Len(nodeIds) >= 2
BoxReqs == {i \in Idx : IsReq(trace[i], "DOM.getBoxModel")}

\* C18: on the multi path, for any number N of elements, at most one
\* centering scroll and at most one scale change are sent, each after all N
\* first-pass measurements and before any second-pass measurement, and
\* exactly one screenshot is captured for a result.
C18_GroupDecisionsOnce ==
  MultiPath =>
    /\ Cardinality({i \in Idx : trace[i].k = "send" /\ trace[i].m \in CenterReqs}) <= 1
    /\ Cardinality({i \in Idx : IsReq(trace[i], ScaleReq) /\ trace[i].n # 100}) <= 1
    /\ \A i \in Idx :
         ( \/ trace[i].k = "send" /\ trace[i].m \in CenterReqs
           \/ IsReq(trace[i], ScaleReq) /\ trace[i].n # 100 )
         => /\ Cardinality({j \in BoxReqs : j < i}) = Len(nodeIds)
            /\ \A j \in BoxReqs : j < i => trace[j].r = "model"
    /\ Count("Page.captureScreenshot") <= 1
    /\ mainOutcome = "Multi" =>
         /\ Count("Page.captureScreenshot") = 1
         /\ Cardinality(BoxReqs) = 2 * Len(nodeIds)

\* A multi-element result after one scroll and one computed scale change.
C18_Witness ==
  /\ Done /\ outcome = "Multi" /\ Len(nodeIds) >= 2
  /\ \E i \in Idx : trace[i] = Req("Runtime.evaluate:centerMultipleElements", 0, "ok")
  /\ params.zoomFactor = 0
  /\ \E i \in Idx : IsReq(trace[i], ScaleReq) /\ trace[i].n # 100 /\ trace[i].r = "ok"

\* C19: the relationships computed over N elements are exactly N(N-1)/2,
\* one for every pair (i, j) with i < j, none for a pair twice and none for
\* an element with itself: 3 elements give 3 relationships.
C19_OnePerUnorderedPair ==
  calc.op = "relationships" =>
    LET N == Len(calc.boxes)
        rels == calc.relationships
    IN /\ 2 * Len(rels) = N * (N - 1)
       /\ \A k \in 1..Len(rels) : rels[k].from < rels[k].to
       /\ \A i \in 0..(N - 1) : \A j \in (i + 1)..(N - 1) :
            Cardinality({k \in 1..Len(rels) : rels[k].from = i /\ rels[k].to = j}) = 1

\* Three elements, three relationships.
C19_Witness ==
  /\ calc.op = "relationships"
  /\ Len(calc.boxes) = 3
  /\ Len(calc.relationships) = 3

\* C20: computing the pairwise relationship with the two elements swapped
\* gives the same horizontal, vertical and center_to_center distances and the
\* same six alignment flags, with from and to exchanged.
C20_PairSymmetric ==
  calc.op = "pair" =>
    LET r == calc.relationships[1]
        q == calc.swapped[1]
    IN /\ r.distance = q.distance
       /\ r.alignment = q.alignment
       /\ r.from = q.to /\ r.to = q.from

\* Two elements apart on both axes, measured in both orders.
C20_Witness ==
  /\ calc.op = "pair"
  /\ calc.relationships[1].distance.horizontal > 0
  /\ calc.relationships[1].distance.vertical > 0
  /\ calc.relationships[1].distance.center_to_center > 0
  /\ calc.relationships[1].from # calc.swapped[1].from

\* The two border boxes, in 1/SubPx pixel, that the relationship of a "pair"
\* state was computed from.
PairBox1 == nodeDataOf(calc.boxes, calc.sub)[calc.relationships[1].from + 1].border
PairBox2 == nodeDataOf(calc.boxes, calc.sub)[calc.relationships[1].to + 1].border

\* The gap between the nearer edges of two spans [lo, lo + len], 0 when the
\* spans overlap or touch.
Gap(lo1, len1, lo2, len2) == Max(0, Max(lo2 - (lo1 + len1), lo1 - (lo2 + len2)))

HGap == Gap(PairBox1.x, PairBox1.width, PairBox2.x, PairBox2.width)
VGap == Gap(PairBox1.y, PairBox1.height, PairBox2.y, PairBox2.height)

\* d whole pixels is the length g (in 1/SubPx pixel) rounded to the nearest
\* pixel, halves upwards.
NearestPx(d, g) == -SubPx < 2 * (SubPx * d - g) /\ 2 * (SubPx * d - g) <= SubPx

\* C21 (as stated): the horizontal distance of a relationship is 0 when the
\* horizontal spans overlap or touch and otherwise equals the positive gap
\* between the nearer edges; the vertical distance likewise; neither is
\* ever negative.
C21_GapExact ==
  calc.op = "pair" =>
    LET d == calc.relationships[1].distance
    IN /\ d.horizontal >= 0 /\ d.vertical >= 0
       /\ SubPx * d.horizontal = HGap
       /\ SubPx * d.vertical = VGap

\* C21 (amended): the horizontal distance of a relationship is the gap
\* between the nearer edges of the horizontal spans rounded to the nearest
\* whole pixel, so it is 0 when the spans overlap, touch or lie less than
\* half a pixel apart; the vertical distance likewise; neither is ever
\* negative.
C21_GapRounded ==
  calc.op = "pair" =>
    LET d == calc.relationships[1].distance
    IN /\ d.horizontal >= 0 /\ d.vertical >= 0
       /\ NearestPx(d.horizontal, HGap)
       /\ NearestPx(d.vertical, VGap)
       /\ (HGap = 0 => d.horizontal = 0)
       /\ (VGap = 0 => d.vertical = 0)

\* Two elements a fraction of a pixel more than whole pixels apart on both
\* axes, with both distances reported.
C21_Witness ==
  /\ calc.op = "pair"
  /\ HGap % SubPx # 0 /\ VGap % SubPx # 0
  /\ calc.relationships[1].distance.horizontal >= 1
  /\ calc.relationships[1].distance.vertical >= 1

\* C22: each alignment flag of a relationship is true exactly when the
\* corresponding edge or center coordinates of the two border boxes differ
\* by at most 1 pixel; two boxes with the same y and the same height are
\* aligned at top, bottom and vertical center.
C22_AlignmentWithinOnePixel ==
  calc.op = "pair" =>
    LET b1 == PairBox1
        b2 == PairBox2
        al == calc.relationships[1].alignment
    IN /\ al.top <=> Abs(b1.y - b2.y) <= SubPx
       /\ al.bottom <=> Abs((b1.y + b1.height) - (b2.y + b2.height)) <= SubPx
       /\ al.left <=> Abs(b1.x - b2.x) <= SubPx
       /\ al.right <=> Abs((b1.x + b1.width) - (b2.x + b2.width)) <= SubPx
       /\ al.vertical_center <=>
            Abs((2 * b1.y + b1.height) - (2 * b2.y + b2.height)) <= 2 * SubPx
       /\ al.horizontal_center <=>
            Abs((2 * b1.x + b1.width) - (2 * b2.x + b2.width)) <= 2 * SubPx
       /\ (b1.y = b2.y /\ b1.height = b2.height) =>
            (al.top /\ al.bottom /\ al.vertical_center)

\* Two different boxes whose top edges lie exactly one pixel apart and are
\* reported as aligned at the top, while their bottom edges are not.
C22_Witness ==
  /\ calc.op = "pair"
  /\ Abs(PairBox1.y - PairBox2.y) = SubPx
  /\ calc.relationships[1].alignment.top
  /\ ~calc.relationships[1].alignment.bottom

\* No margin, border or padding width of the metrics is negative.
NonNegativeWidths(metrics) ==
  \A part \in {metrics.margin, metrics.border, metrics.padding} :
    part.left >= 0 /\ part.right >= 0 /\ part.top >= 0 /\ part.bottom >= 0

\* C23: for metrics whose margin, border and padding widths are all
\* non-negative, the border rect of the box model is the measured rect, and
\* the content rect is no larger than the padding rect, which is no larger
\* than the border rect, which is no larger than the margin rect, in width
\* and in height.
C23_BoxesNested ==
  (calc.op = "boxModel" /\ NonNegativeWidths(calc.metrics)) =>
    LET bm == calc.boxModel IN
    /\ bm.border = calc.metrics.viewport
    /\ bm.content.width <= bm.padding.width
    /\ bm.padding.width <= bm.border.width
    /\ bm.border.width <= bm.margin.width
    /\ bm.content.height <= bm.padding.height
    /\ bm.padding.height <= bm.border.height
    /\ bm.border.height <= bm.margin.height

\* A box model with positive margin, border and padding on every side: the
\* four rects differ in width and in height.
C23_Witness ==
  /\ calc.op = "boxModel"
  /\ NonNegativeWidths(calc.metrics)
  /\ calc.boxModel.content.width < calc.boxModel.padding.width
  /\ calc.boxModel.padding.width < calc.boxModel.border.width
  /\ calc.boxModel.border.width < calc.boxModel.margin.width
  /\ calc.boxModel.content.height < calc.boxModel.padding.height
  /\ calc.boxModel.padding.height < calc.boxModel.border.height
  /\ calc.boxModel.border.height < calc.boxModel.margin.height

\* C24: for all metrics, also those whose border and padding widths exceed
\* the measured rect, the content rect of the box model has a width and a
\* height of at least 0.
C24_ContentNonNegative ==
  calc.op = "boxModel" =>
    /\ calc.boxModel.content.width >= 0
    /\ calc.boxModel.content.height >= 0

\* An annotation has been evaluated and returned an annotated image.
Drawn == calc.op \in {"drawnSingle", "drawnMultiple"}
Annotated == Drawn /\ calc.out.bytes = "annotated"

\* The rect of the box model each drawing operation is given, in order.
DrawnPart == <<"margin", "border", "padding", "content", "content", "border">>

\* The capture is clipped and its size differs from the clip's by more than
\* a hundredth: a device scale other than 1.
ClippedAndScaled ==
  /\ calc.clip # <<>>
  /\ \/ 100 * Abs(calc.screenshotBuffer.width - calc.clip[1].width) > calc.clip[1].width
     \/ 100 * Abs(calc.screenshotBuffer.height - calc.clip[1].height)
          > calc.clip[1].height

\* C25: scaling is applied first and the clip offset second: with a clip
\* and a device scale other than 1, every drawn rect has
\* x = max(0, x0 * scale - clip.x * scale) and
\* y = max(0, y0 * scale - clip.y * scale) for the element's rect (x0, y0),
\* and x >= 0 and y >= 0.  (scale = image size / clip size; x is compared
\* in 1/clip.width pixel, y in 1/clip.height pixel.)
C25_ScaleThenClip ==
  (Annotated /\ ClippedAndScaled) =>
    \A k \in 1..Len(calc.out.drawn) :
      LET rect == calc.out.drawn[k].rect
          orig == calc.nodeData[1][DrawnPart[k]]
          clip == calc.clip[1]
          W == calc.screenshotBuffer.width
          H == calc.screenshotBuffer.height
      IN /\ rect.x = Max(0, orig.x * W - clip.x * W)
         /\ rect.y = Max(0, orig.y * H - clip.y * H)
         /\ rect.x >= 0 /\ rect.y >= 0

\* A capture of a clip at device scale 2 on which the margin rect, left of
\* the clip, is drawn at x = 0 and the border rect right of it.
C25_Witness ==
  /\ Annotated /\ ClippedAndScaled
  /\ calc.screenshotBuffer.width = 2 * calc.clip[1].width
  /\ calc.nodeData[1].margin.x < calc.clip[1].x
  /\ calc.out.drawn[1].rect.x = 0
  /\ calc.out.drawn[2].rect.x > 0

\* C26: when annotating the screenshot fails (decoding, transforming,
\* drawing or encoding), the annotation returns the captured bytes
\* unchanged, the call goes on with its next step, and a call whose later
\* steps succeed returns a result: the failure never becomes the call's
\* error.
C26_AnnotationFailureKeepsCapture ==
  /\ (Drawn /\ calc.fail # "none") => calc.out = calc.screenshotBuffer
  /\ \A i \in Idx :
       trace[i] = Local("annotateFailed") =>
         /\ mainOutcome \notin Errors \/ i < Len(trace)
         /\ i < Len(trace) =>
              /\ IsReq(trace[i + 1], "Overlay.hideHighlight")
              /\ (Done /\ trace[i + 1].r = "ok") => outcome \in Results

\* A call that returned a result although its annotation failed.
C26_Witness ==
  /\ Done /\ outcome \in Results
  /\ \E i \in Idx : trace[i] = Local("annotateFailed")

\* Red, green and blue of two colours agree.
SameRgb(c, d) == c.r = d.r /\ c.g = d.g /\ c.b = d.b

\* The operations of the given kind drawn on the annotated image.
DrawnOps(kind) == {k \in 1..Len(calc.out.drawn) : calc.out.drawn[k].kind = kind}

\* The box model of element i in screenshot coordinates.
ShotBox(i) ==
  adjustedBoxModel(calc.nodeData[i], ShotViewport, calc.clip,
                   [width |-> calc.screenshotBuffer.width,
                    height |-> calc.screenshotBuffer.height])

\* C27: in a multi-element inspection every element i (from 0) receives an
\* outline and a fill in colour i mod 5 of the 5-colour palette, and only the
\* first element receives the center rulers.
C27_EveryElementInPaletteColour ==
  (calc.op = "drawnMultiple" /\ calc.out.bytes = "annotated") =>
    /\ Len(HIGHLIGHT_COLORS) = 5
    /\ \A i \in 1..Len(calc.nodeData) :
         LET colour == HIGHLIGHT_COLORS[((i - 1) % 5) + 1] IN
         /\ \E k \in DrawnOps("outline") :
              /\ calc.out.drawn[k].rect \in {ShotBox(i)[p] : p \in DOMAIN ShotBox(i)}
              /\ SameRgb(calc.out.drawn[k].color, colour)
         /\ \E k \in DrawnOps("fill") :
              /\ calc.out.drawn[k].rect \in {ShotBox(i)[p] : p \in DOMAIN ShotBox(i)}
              /\ SameRgb(calc.out.drawn[k].color, colour)
    /\ \A k \in DrawnOps("rulers") : calc.out.drawn[k].rect = ShotBox(1).border
    /\ Cardinality(DrawnOps("rulers")) = 1

\* C28: calculateSpecificity returns "0,0,0,0" for the empty selector and
\* "0,1,2,1" for "#a.b.c div"; an identifier that follows # or . is never
\* also counted as an element name; the inline field is always 0.
C28_SpecificityCounts ==
  calc.op = "specificity" =>
    /\ calc.selector = <<>> => calc.out = <<"0", ",", "0", ",", "0", ",", "0">>
    /\ calc.selector = <<"#", "a", ".", "b", ".", "c", " ", "d", "i", "v">> =>
         calc.out = <<"0", ",", "1", ",", "2", ",", "1">>
    /\ \A k \in 1..Len(calc.elementMatches) :
         ~calc.elementMatches[k].pseudo =>
           At(calc.selector, calc.elementMatches[k].start - 1) \notin {"#", "."}
    /\ calc.out[1] = "0" /\ calc.out[2] = ","

\* The number of comma-separated entries of a value.
Entries(value) == Cardinality({i \in 1..Len(value) : value[i] = ","}) + 1

\* C29: a font-family value with more than 3 comma-separated entries is
\* reduced to its first 3 entries followed by ", ...", whatever its total
\* length: truncate("font-family", "A, B, C, D, E") = "A, B, C, ...".
C29_FontListReduced ==
  (calc.op = "truncated" /\ calc.property = "font-family" /\ Entries(calc.value) > 3) =>
    /\ Entries(calc.out) = 4
    /\ SubSeq(calc.out, Len(calc.out) - 4, Len(calc.out)) = <<",", " ", ".", ".", ".">>
    /\ calc.value = <<"A", ",", " ", "B", ",", " ", "C", ",", " ", "D", ",", " ", "E">>
         => calc.out = <<"A", ",", " ", "B", ",", " ", "C", ",", " ", ".", ".", ".">>

\* C30: for every property other than font-family, a value of at most 100
\* characters is returned unchanged and a longer one is returned as its
\* first 97 characters followed by "...", 100 characters in all.
C30_LongValuesCut ==
  (calc.op = "truncated" /\ calc.property # "font-family") =>
    IF Len(calc.value) <= 100 THEN calc.out = calc.value
    ELSE /\ Len(calc.out) = 100
         /\ \A i \in 1..97 : calc.out[i] = calc.value[i]
         /\ \A i \in 98..100 : calc.out[i] = "."

\* A value of 101 characters of another property, cut to 100.
C30_Witness ==
  /\ calc.op = "truncated"
  /\ calc.property = "color"
  /\ Len(calc.value) = 101
  /\ Len(calc.out) = 100
  /\ calc.out # calc.value

\* The rules as the browser reported them: the element's, then the inherited.
BrowserRules == calc.cdpMatchedStyles.matchedCSSRules \o calc.cdpMatchedStyles.inherited

\* C31: when not including all properties, the filtered cascade rules are an
\* order-preserving subsequence of the rules the browser reported, none of
\* them from the user-agent stylesheet and none with an empty property map,
\* and each retained rule keeps exactly those of its properties that pass the
\* per-property group test.
C31_FilteredRulesSubsequence ==
  (calc.op = "filteredRules" /\ ~calc.includeAll) =>
    /\ \A k \in 1..Len(calc.out) :
         /\ calc.out[k].source # <<"user-agent">>
         /\ DOMAIN calc.out[k].properties # {}
    /\ \E f \in [1..Len(calc.out) -> 1..Len(BrowserRules)] :
         /\ \A k \in 1..(Len(calc.out) - 1) : f[k] < f[k + 1]
         /\ \A k \in 1..Len(calc.out) :
              LET b == BrowserRules[f[k]] IN
              /\ b.hasStyle /\ b.origin # "user-agent"
              /\ calc.out[k].specificity = calculateSpecificity(b.text)
              /\ DOMAIN calc.out[k].properties =
                   {p \in DOMAIN b.cssProperties :
                      /\ b.cssProperties[p] # <<>>
                      /\ shouldIncludeProperty(p, calc.requestedGroups, FALSE)}

\* A reply with a user-agent rule, a rule none of whose properties is
\* requested and a rule that keeps one of its two properties: one rule is
\* left.
C31_Witness ==
  /\ calc.op = "filteredRules" /\ ~calc.includeAll
  /\ Len(calc.rules) = 3
  /\ Len(calc.out) = 1
  /\ \E k \in 1..3 : calc.rules[k].source = <<"user-agent">>
  /\ \E k \in 1..3 : /\ calc.rules[k].source # <<"user-agent">>
                     /\ calc.rules[k].selector = calc.out[1].selector
                     /\ Cardinality(DOMAIN calc.rules[k].properties) = 2
  /\ Cardinality(DOMAIN calc.out[1].properties) = 1

C33_ElementCountCapped ==
  (calc.op = "inspected" /\ ~calc.out.error) =>
    /\ calc.out.elements >= 1
    /\ calc.out.elements <= 20
    /\ calc.out.relationships <= 190
    /\ calc.limit = <<>> => calc.out.elements <= 10

\* C34: the marker values are unique to the call that writes them: of two
\* inspection calls on one tab, one after the other or overlapping, neither
\* tags a node with, nor reuses, a marker value the other call wrote.
C34_MarkersUniqueToCall ==
  calc.op = "tab" =>
    \A c \in Calls : \A d \in Calls \ {c} :
      calc.uses[c] \cap calc.wrote[d] = {}

\* C35: the relationships of a multi-element result are computed from each
\* element's second-pass border box, measured after centering and zoom and
\* returned in elements[]; never from a first-pass box.
C35_RelationshipsFromSecondPass ==
  \A i \in Idx :
    (trace[i].k = "local" /\ trace[i].m = "relationships") =>
      /\ trace[i].n = Len(nodeIds)
      /\ mainOutcome = "Multi" =>
           \A j \in 1..Len(boxModels) : boxModels[j] = "updated"

\* The coordinates p lie in the image: 0 <= x < width and 0 <= y < height.
InPixelImage(p) ==
  /\ 0 <= p[1] /\ p[1] < PixelImage.width * SubPx
  /\ 0 <= p[2] /\ p[2] < PixelImage.height * SubPx

\* C36: no drawing operation (outline, fill, rulers) sets a pixel outside
\* the image, wherever the rectangle lies, partly or wholly outside and
\* with negative coordinates included: every pixel set has 0 <= x < width
\* and 0 <= y < height.
C36_DrawingStaysInImage ==
  calc.op = "pixels" =>
    \A part \in {"thin", "thick", "filled", "rulers"} :
      \A p \in calc.out[part] : InPixelImage(p)

\* A rectangle that sticks out of the image on the top and the left and on
\* the bottom and the right, and all three operations drew some of it.
C36_Witness ==
  /\ calc.op = "pixels"
  /\ calc.rect.x < 0 /\ calc.rect.y < 0
  /\ calc.rect.x + calc.rect.width > PixelImage.width * SubPx
  /\ calc.rect.y + calc.rect.height > PixelImage.height * SubPx
  /\ calc.out.thick # {} /\ calc.out.filled # {} /\ calc.out.rulers # {}

\* C37: a clip rectangle is requested only when the applied zoom factor is
\* greater than 1, and every clip sent lies inside the viewport: x >= 0,
\* y >= 0, width >= 1, height >= 1, x + width <= viewport width and
\* y + height <= viewport height; otherwise the full viewport is captured.
C37_ClipInsideViewport ==
  (calc.op \in {"singleClip", "multiClip"} /\ calc.out # NoClip) =>
    LET clip == calc.out[1]
    IN /\ calc.factor > 100
       /\ clip.x >= 0 /\ clip.y >= 0
       /\ clip.width >= 1 /\ clip.height >= 1
       /\ clip.x + clip.width <= ShotViewport.width
       /\ clip.y + clip.height <= ShotViewport.height

\* A zoomed capture whose clip was cut at the right and bottom edges of
\* the viewport.
C37_Witness ==
  /\ calc.op \in {"singleClip", "multiClip"}
  /\ calc.out # NoClip
  /\ calc.out[1].x > 0
  /\ calc.out[1].x + calc.out[1].width = ShotViewport.width
  /\ calc.out[1].y + calc.out[1].height = ShotViewport.height

\* viewport_adjustments.centered of a result: the single path reports
\* autoCenter && shouldCenterElement(elementPosition, viewportInfo), the
\* multi path reports autoCenter.
reportedCentered ==
  IF mainOutcome = "Multi"
  THEN params.autoCenter
  ELSE params.autoCenter /\ shouldCenterElement(elementPosition(args), Viewport)

\* A centering scroll was issued in this call.
CenteringIssued == \E i \in Idx : trace[i].k = "send" /\ trace[i].m \in CenterReqs

\* C38: in every returned result, of the single and of the multi path,
\* viewport_adjustments.centered is true exactly when a centering scroll
\* was issued during the call.
C38_CenteredIffScrolled ==
  (mainOutcome \in Results /\ params # NoParams) =>
    (reportedCentered <=> CenteringIssued)

\* The properties and rules of element i that the browser reported, and
\* those of them that the result keeps.
KeptProperties(i) ==
  {p \in DOMAIN calc.elements[i].styles :
     shouldIncludeProperty(p, calc.property_groups, FALSE)}
ReportedRules(i) == convertCascadeRules(calc.elements[i].cdpMatchedStyles)
KeptRules(i) == filterCascadeRules(ReportedRules(i), calc.property_groups, FALSE)

\* C39: in every result filtered_properties <= total_properties and
\* filtered_rules <= total_rules; in a multi-element result each of the
\* four counters is the sum of the per-element counts over all inspected
\* elements.
C39_StatsConsistent ==
  calc.op \in {"singleStats", "multiStats"} =>
    /\ calc.out.filtered_properties <= calc.out.total_properties
    /\ calc.out.filtered_rules <= calc.out.total_rules
    /\ calc.op = "multiStats" =>
         /\ calc.out.total_properties =
              Cardinality(DOMAIN calc.elements[1].styles)
                + Cardinality(DOMAIN calc.elements[2].styles)
         /\ calc.out.filtered_properties =
              Cardinality(KeptProperties(1)) + Cardinality(KeptProperties(2))
         /\ calc.out.total_rules = Len(ReportedRules(1)) + Len(ReportedRules(2))
         /\ calc.out.filtered_rules = Len(KeptRules(1)) + Len(KeptRules(2))

\* A multi-element result in which every element lost a property to the
\* filter, one element kept its rule and the other lost it.
C39_Witness ==
  /\ calc.op = "multiStats"
  /\ \A i \in 1..2 :
       Cardinality(KeptProperties(i)) < Cardinality(DOMAIN calc.elements[i].styles)
  /\ Len(KeptRules(1)) = 1
  /\ Len(ReportedRules(2)) = 1 /\ Len(KeptRules(2)) = 0
  /\ calc.out.filtered_rules = 1 /\ calc.out.total_rules = 2

====
